---- MODULE Spec2Model ----
(***************************************************************************)
(* A model of the piezo_pic layout generator: the serpentine path          *)
(* synthesizer (geometry/serpentine.py), the path sampler and distance     *)
(* helpers (utils/geometry.py), the plate / a-Si builder (cells/stack.py), *)
(* the release-hole placer (features/release.py), the cell assembler       *)
(* (cells/serpentine_multilayer.py) and the example script with the file   *)
(* writer (examples/build_design1.py, io/write.py).                        *)
(*                                                                         *)
(* Numbers.  The program computes in floating point micrometres.  The      *)
(* model computes in fixed point: every length is an integer number of     *)
(* grid units, and a division rounds down to the grid.  The input sets     *)
(* are lattices on which the arithmetic of the synthesizer is exact:       *)
(* radii and band heights are multiples of RUnit, and all lengths are      *)
(* even, so that the halves the program takes are exact.                   *)
(* The tiny float tolerances of the program are the smallest lengths of    *)
(* their lattice (ClampEps, MIN_SIZE, DEDUP_TOL_UM) or lie below the grid  *)
(* (NUM_EPS, DIV_EPS, the 1e-18 of min_dist_point_polyline).               *)
(*                                                                         *)
(* External library.  gf.path.euler(radius, angle) is modelled by its      *)
(* contract: a quarter turn whose minimum radius of curvature is `radius`  *)
(* (use_eff=False), so its end point lies (1.4*radius, 1.4*radius) ahead   *)
(* (1.416 for the p = 0.5 Euler bend), discretized into two chords with    *)
(* integer lengths.  gf.Path += piece rotates the piece to the current     *)
(* end angle, moves it to the current end point and drops its first point. *)
(***************************************************************************)
EXTENDS Integers, Sequences, FiniteSets

VARIABLES
    pc,         \* position in build_serpentine_multilayer_cell / serpentine_path_um
    serp,       \* SerpentineParams handed to the builder
    R,          \* effective bend radius chosen by serpentine_path_um
    i,          \* loop index of the motif loop
    P,          \* gf.Path under construction: the sequence of its points
    end_angle,  \* gf.Path.end_angle in quarter turns (0 = +X, 1 = +Y, 2 = -X, 3 = -Y)
    err,        \* the ValueError raised, "" when none
    widths,     \* WaveguideWidths
    plate,      \* PlateParams
    asi,        \* ASiParams
    holes,      \* HoleParams
    build,      \* BuildParams
    D,          \* the component: its references in the order they were added
    r_asi,      \* the index in D of the a-Si reference, 0 for None
    plate_bbox, \* (bxmin, bymin, bxmax, bymax) as read in step "bboxes"
    asi_box,    \* the a-Si bbox as read in step "bboxes": [set, x0, y0, x1, y1]
    pts_final,  \* the sampled centerline handed to the hole placer
    in_pts,     \* a path handed to path_length_um and sample_points_um directly
    in_s,       \* the arclength values handed to sample_points_um directly
    out_len,    \* what path_length_um returned
    out_pts,    \* what sample_points_um returned
    loc_x_centers, \* hole placer called directly: its local x_centers_arr
    loc_inner,  \* its inner rectangle [ok, x0, x1, y0, y1]
    loc_seam_xs, \* its local seam_xs
    loc_ys,     \* its local ys
    files,      \* the files written by write_gds_with_meta: "gds", "meta"
    gds_path,   \* the gds_path handed to write_gds_with_meta: a file name as the
                \* sequence of its dot-separated parts, the stem first
    out_files,  \* the names of the files written, in the order of the writes
    out_path    \* what write_gds_with_meta returned, << >> before it returns

serpVars == <<pc, serp, R, i, P, end_angle, err>>
paramVars == <<widths, plate, asi, holes, build>>
cellVars == <<D, r_asi, plate_bbox, asi_box, pts_final>>
geomVars == <<in_pts, in_s, out_len, out_pts>>
placerVars == <<loc_x_centers, loc_inner, loc_seam_xs, loc_ys>>
writerVars == <<gds_path, out_files, out_path>>
vars == <<pc, serp, R, i, P, end_angle, err, widths, plate, asi, holes, build,
          D, r_asi, plate_bbox, asi_box, pts_final, in_pts, in_s, out_len, out_pts,
          loc_x_centers, loc_inner, loc_seam_xs, loc_ys, files,
          gds_path, out_files, out_path>>

----------------------------------------------------------------------------
(* Bounds of the model *)

MaxIter == 2            \* iterations range over 0..MaxIter
MaxRadiusSteps == 2     \* radius_um ranges over RUnit * (0..MaxRadiusSteps)
MaxLenSteps == 2        \* length_um ranges over {-RUnit} and RUnit * (0..MaxLenSteps)
MaxBandSteps == 4       \* band_height_um ranges over RUnit * (0..MaxBandSteps)
MaxRows == 3            \* holes_per_col ranges over 0..MaxRows
MaxPts == 3             \* a path handed to the sampler directly has 0..MaxPts points
MaxS == 2               \* and is sampled at 0..MaxS arbitrary arclength values
MaxN == 4               \* or at N = 0..MaxN values evenly spaced over its length
MaxLegs == 3            \* a centerline handed to the hole placer directly has 0..MaxLegs legs
MaxSuffixes == 2        \* a file name handed to the writer directly has 0..MaxSuffixes suffixes
DistSteps == 2          \* a segment is probed at its DistSteps + 1 evenly spaced points
SampleN == 25           \* the number of centerline samples (4000 in the program)

(* Program constants, in grid units *)

RUnit == 10             \* one lattice step of a radius: the bend chords are (8,6)*R/RUnit
ClampEps == 10          \* the 1e-6 of max(1e-6, 0.5*usable_H - 1e-6): one lattice step
MinNpts == 8            \* npts_per_bend must be >= 8
MinIter == 1            \* iterations must be >= 1
MIN_SIZE == 2           \* _MIN_SIZE of stack.py, 1e-6: the smallest length of the even lattice
DEDUP_TOL_UM == 1       \* _DEDUP_TOL_UM of release.py, 1e-3: one grid unit
StraightTolNum == 3     \* straight_tol = 0.06 = 3 / 50
StraightTolDen == 50
STRIP_HEIGHT == 40      \* fixed_height_um or 40.0, the strip height without a-Si
INNER_MARGIN == 20      \* INNER_MARGIN = 20.0, the clearance above and below M1

----------------------------------------------------------------------------
(* Small arithmetic *)

Min(a, b) == IF a <= b THEN a ELSE b
Max(a, b) == IF a >= b THEN a ELSE b
Abs(a) == IF a < 0 THEN -a ELSE a

(* Rotation of a vector by q quarter turns counter-clockwise *)
Rot(v, q) ==
    CASE q % 4 = 0 -> v
      [] q % 4 = 1 -> <<-v[2], v[1]>>
      [] q % 4 = 2 -> <<-v[1], -v[2]>>
      [] q % 4 = 3 -> <<v[2], -v[1]>>

(* gf.path.euler(radius=r, angle=+90 or -90): the local points of the bend,
   start at the origin heading +X; sense is +1 (left turn) or -1 (right turn). *)
Euler(r, sense) ==
    LET u == r \div RUnit
    IN  << <<0, 0>>, <<8 * u, sense * 6 * u>>, <<14 * u, sense * 14 * u>> >>

(* gf.path.straight(length=l): two points, the second one l ahead *)
Straight(l) == << <<0, 0>>, <<l, 0>> >>

(* gf.Path.__iadd__: rotate the piece to the end angle, move it to the end
   point, append all its points but the first. *)
PathAppend(path, piece, q) ==
    LET last == path[Len(path)]
        moved == [k \in 1..(Len(piece) - 1) |->
                    LET w == Rot(piece[k + 1], q)
                    IN  <<last[1] + w[1], last[2] + w[2]>>]
    IN  path \o moved

----------------------------------------------------------------------------
(* utils/geometry.py *)

(* sqrt of the fixed-point arithmetic: the root rounded down, looked for
   between lo and hi.  The chords of a synthesized path have integer
   lengths, so the root is exact on them. *)
Isqrt(n, lo, hi) == CHOOSE r \in lo..hi : r * r <= n /\ (r + 1) * (r + 1) > n

(* one entry of np.sqrt(np.sum(np.diff(pts, axis=0) ** 2, axis=1)) *)
SegLen(a, b) ==
    LET dx == b[1] - a[1]
        dy == b[2] - a[2]
    IN  IF dx = 0 THEN Abs(dy)
        ELSE IF dy = 0 THEN Abs(dx)
        ELSE Isqrt(dx * dx + dy * dy, Max(Abs(dx), Abs(dy)), Abs(dx) + Abs(dy))

(* np.concatenate([[0.0], np.cumsum(segs)]): s_cum[k] is the arclength of
   point k (1-based) *)
RECURSIVE CumLenFrom(_, _, _)
CumLenFrom(pts, k, acc) ==
    IF k > Len(pts) THEN acc
    ELSE CumLenFrom(pts, k + 1, Append(acc, acc[Len(acc)] + SegLen(pts[k - 1], pts[k])))

CumLen(pts) == CumLenFrom(pts, 2, <<0>>)

(* path_length_um: P.length() of a gf.Path is the same sum of chord lengths
   as the fallback; fewer than _POLY_MIN_COLS points give 0.0 *)
path_length_um(pts) ==
    IF Len(pts) < 2 THEN 0 ELSE CumLen(pts)[Len(pts)]

SetMin(S) == CHOOSE m \in S : \A x \in S : m <= x
SetMax(S) == CHOOSE m \in S : \A x \in S : m >= x
Xs(pts) == {pts[k][1] : k \in 1..Len(pts)}
Ys(pts) == {pts[k][2] : k \in 1..Len(pts)}

(* an interpolation that takes the vertex at the start of the interval *)
Interp_StartVertex(s, sc, vals) ==
    LET n == Len(vals)
    IN  IF s <= sc[1] THEN vals[1]
        ELSE IF s >= sc[n] THEN vals[n]
        ELSE vals[SetMax({k \in 1..(n - 1) : sc[k] <= s})]

(* one value of np.interp(s, s_cum, vals): the ends are clamped, and inside
   the value is interpolated on the last interval that starts at or before s *)
Interp(s, sc, vals) ==
    LET n == Len(vals)
    IN  IF s <= sc[1] THEN vals[1]
        ELSE IF s >= sc[n] THEN vals[n]
        ELSE LET j == SetMax({k \in 1..(n - 1) : sc[k] <= s})
             IN  vals[j] + (((s - sc[j]) * (vals[j + 1] - vals[j])) \div (sc[j + 1] - sc[j]))

(* a sampler that returns the single point of a one-point path only once *)
sample_points_um_NoRepeat(pts, s_vals) ==
    IF Len(pts) = 0 THEN << >>
    ELSE IF Len(pts) = 1 THEN << pts[1] >>
    ELSE << >>

(* sample_points_um: gf.Path has no sample method, so the fallback runs *)
sample_points_um(pts, s_vals) ==
    IF Len(pts) = 0 THEN << >>
    ELSE IF Len(pts) = 1 THEN [k \in 1..Len(s_vals) |-> pts[1]]
    ELSE LET sc == CumLen(pts)
             xs == [k \in 1..Len(pts) |-> pts[k][1]]
             ys == [k \in 1..Len(pts) |-> pts[k][2]]
         IN  [k \in 1..Len(s_vals) |->
                <<Interp(s_vals[k], sc, xs), Interp(s_vals[k], sc, ys)>>]

(* np.linspace(start, stop, num): num values, the last one exactly stop *)
linspace(start, stop, num) ==
    [k \in 1..num |->
        IF num = 1 THEN start
        ELSE start + (((k - 1) * (stop - start)) \div (num - 1))]

(* a distance to the nearer end point of v-w only, without the projection *)
SegDist2_VertexOnly(p, v, w) ==
    Min((p[1] - v[1]) * (p[1] - v[1]) + (p[2] - v[2]) * (p[2] - v[2]),
        (p[1] - w[1]) * (p[1] - w[1]) + (p[2] - w[2]) * (p[2] - w[2]))

(* the squared distance from p to the segment v-w, rounded down: t is the
   clipped projection parameter, a zero-length segment gives t = 0 *)
SegDist2(p, v, w) ==
    LET dvx == w[1] - v[1]
        dvy == w[2] - v[2]
        pvx == p[1] - v[1]
        pvy == p[2] - v[2]
        len2 == dvx * dvx + dvy * dvy
        dot == pvx * dvx + pvy * dvy
        pv2 == pvx * pvx + pvy * pvy
    IN  IF len2 = 0 \/ dot <= 0 THEN pv2
        ELSE IF dot >= len2
             THEN (p[1] - w[1]) * (p[1] - w[1]) + (p[2] - w[2]) * (p[2] - w[2])
        ELSE (pv2 * len2 - dot * dot) \div len2

(* min_dist_point_polyline, squared and rounded down: for an integer k,
   min_dist < k exactly when this value is < k*k *)
min_dist2_point_polyline(px, py, poly_xy) ==
    SetMin({SegDist2(<<px, py>>, poly_xy[k], poly_xy[k + 1]) : k \in 1..(Len(poly_xy) - 1)})

(* bbox_xyxy of a placed rectangle [x, y, w, h] *)
bbox_xyxy(ref) == <<ref.x, ref.y, ref.x + ref.w, ref.y + ref.h>>

----------------------------------------------------------------------------
(* features/release.py *)

(* a sort that leaves the order as it is *)
SortAsc_KeepOrder(seq) == seq

(* sorted(...) / np.sort: insertion into an ascending sequence *)
RECURSIVE InsertSorted(_, _)
InsertSorted(seq, v) ==
    IF seq = << >> THEN <<v>>
    ELSE IF v < Head(seq) THEN <<v>> \o seq
    ELSE <<Head(seq)>> \o InsertSorted(Tail(seq), v)

RECURSIVE SortAsc(_)
SortAsc(seq) ==
    IF seq = << >> THEN << >>
    ELSE InsertSorted(SortAsc(Tail(seq)), Head(seq))

(* _dedupe_sorted: sort, then keep a value only if it is more than tol above
   the last value kept *)
RECURSIVE DedupeScan(_, _, _)
DedupeScan(keep, rest, tol) ==
    IF rest = << >> THEN keep
    ELSE IF Abs(Head(rest) - keep[Len(keep)]) > tol
         THEN DedupeScan(Append(keep, Head(rest)), Tail(rest), tol)
         ELSE DedupeScan(keep, Tail(rest), tol)


(* a de-duplication that only sorts *)
dedupe_sorted_SortOnly(vals, tol) == SortAsc(vals)

dedupe_sorted(vals, tol) ==
    IF Len(vals) = 0 THEN vals
    ELSE LET sorted == SortAsc(vals)
         IN  DedupeScan(<<Head(sorted)>>, Tail(sorted), tol)

(* lines 105-109: mask[k] says that the pair of points k, k+1 is vertical:
   |dx / (|dy| + DIV_EPS)| < straight_tol and |dy| > NUM_EPS.  On the grid
   DIV_EPS only decides the case of equality, and |dy| > NUM_EPS is dy # 0. *)
VerticalMask(pts) ==
    [k \in 1..(Len(pts) - 1) |->
        LET dx == pts[k + 1][1] - pts[k][1]
            dy == pts[k + 1][2] - pts[k][2]
        IN  /\ StraightTolDen * Abs(dx) <= StraightTolNum * Abs(dy)
            /\ Abs(dy) > 0]

(* an inner loop that stops after one pair *)
RunEnd_OnePair(mask, j) == j + 1

(* lines 117-118: the inner while loop, the first index from j on that is
   past the mask or not vertical *)
RECURSIVE RunEnd(_, _)
RunEnd(mask, j) ==
    IF j <= Len(mask) /\ mask[j] THEN RunEnd(mask, j + 1) ELSE j

(* lines 111-123: the runs (i, j) of consecutive vertical pairs, i the first
   pair of the run and j the first index after it *)
RECURSIVE ScanRuns(_, _, _)
ScanRuns(mask, k, runs) ==
    IF k > Len(mask) THEN runs
    ELSE IF mask[k]
         THEN LET j == RunEnd(mask, k)
              IN  ScanRuns(mask, j, Append(runs, <<k, j>>))
         ELSE ScanRuns(mask, k + 1, runs)

RECURSIVE SumX(_, _, _)
SumX(pts, a, b) == IF a > b THEN 0 ELSE pts[a][1] + SumX(pts, a + 1, b)

(* lines 129-135: the points of run (i0, i1) are i0..i1; more than two of
   them lose the first and the last; the mean of their X *)
RunXCenter(pts, run) ==
    LET n == run[2] - run[1] + 1
        a == IF n > 2 THEN run[1] + 1 ELSE run[1]
        b == IF n > 2 THEN run[2] - 1 ELSE run[2]
    IN  SumX(pts, a, b) \div (b - a + 1)

XCenters(pts) ==
    LET runs == ScanRuns(VerticalMask(pts), 1, << >>)
    IN  [k \in 1..Len(runs) |-> RunXCenter(pts, runs[k])]

(* an inner rectangle that is not tested again after the windows *)
InnerRect_NoTestAfterClip(bbox, mx, my, x_range, y_range) ==
    LET x0 == bbox[1] + mx
        x1 == bbox[3] - mx
        y0 == bbox[2] + my
        y1 == bbox[4] - my
    IN  [ok |-> ~(x1 <= x0 \/ y1 <= y0),
         x0 |-> IF x_range.set THEN Max(x0, x_range.lo) ELSE x0,
         x1 |-> IF x_range.set THEN Min(x1, x_range.hi) ELSE x1,
         y0 |-> IF y_range.set THEN Max(y0, y_range.lo) ELSE y0,
         y1 |-> IF y_range.set THEN Min(y1, y_range.hi) ELSE y1]

(* an inner rectangle that forgets the margins *)
InnerRect_NoMargins(bbox, mx, my, x_range, y_range) ==
    LET cx0 == IF x_range.set THEN Max(bbox[1], x_range.lo) ELSE bbox[1]
        cx1 == IF x_range.set THEN Min(bbox[3], x_range.hi) ELSE bbox[3]
        cy0 == IF y_range.set THEN Max(bbox[2], y_range.lo) ELSE bbox[2]
        cy1 == IF y_range.set THEN Min(bbox[4], y_range.hi) ELSE bbox[4]
    IN  [ok |-> ~(cx1 <= cx0 \/ cy1 <= cy0),
         x0 |-> cx0, x1 |-> cx1, y0 |-> cy0, y1 |-> cy1]

(* lines 141-159: the plate box inside its margins, then cut by the windows;
   a window is [set, lo, hi].  The result is [ok, x0, x1, y0, y1], ok FALSE
   when the function returns without placing anything. *)
InnerRect(bbox, mx, my, x_range, y_range) ==
    LET x0 == bbox[1] + mx
        x1 == bbox[3] - mx
        y0 == bbox[2] + my
        y1 == bbox[4] - my
        cx0 == IF x_range.set THEN Max(x0, x_range.lo) ELSE x0
        cx1 == IF x_range.set THEN Min(x1, x_range.hi) ELSE x1
        cy0 == IF y_range.set THEN Max(y0, y_range.lo) ELSE y0
        cy1 == IF y_range.set THEN Min(y1, y_range.hi) ELSE y1
    IN  IF x1 <= x0 \/ y1 <= y0
        THEN [ok |-> FALSE, x0 |-> x0, x1 |-> x1, y0 |-> y0, y1 |-> y1]
        ELSE [ok |-> ~(cx1 <= cx0 \/ cy1 <= cy0),
              x0 |-> cx0, x1 |-> cx1, y0 |-> cy0, y1 |-> cy1]

(* columns built without the clip to the inner rectangle *)
SeamXs_NoClip(x_centers_arr, x0_inner, x1_inner) ==
    LET mids == [k \in 1..(Len(x_centers_arr) - 1) |->
                    (x_centers_arr[k] + x_centers_arr[k + 1]) \div 2]
    IN  dedupe_sorted(<<x0_inner>> \o mids \o <<x1_inner>>, DEDUP_TOL_UM)

(* lines 162-165: the edges and the midpoints between adjacent legs, those
   inside the inner rectangle, sorted and de-duplicated *)
SeamXs(x_centers_arr, x0_inner, x1_inner) ==
    LET mids == [k \in 1..(Len(x_centers_arr) - 1) |->
                    (x_centers_arr[k] + x_centers_arr[k + 1]) \div 2]
        all == <<x0_inner>> \o mids \o <<x1_inner>>
    IN  dedupe_sorted(SelectSeq(all, LAMBDA v : v >= x0_inner /\ v <= x1_inner),
                      DEDUP_TOL_UM)

(* line 181: hole_pitch_y_um if set and non-zero, else hole_pitch_um, else 0 *)
PitchY(h) ==
    IF h.hole_pitch_y_set /\ h.hole_pitch_y_um # 0 THEN h.hole_pitch_y_um
    ELSE h.hole_pitch_um

(* np.arange(y_start, y_stop + NUM_EPS, pitch): y_start + k*pitch up to y_stop *)
arange(y_start, y_stop, pitch) ==
    [k \in 1..(((y_stop - y_start) \div pitch) + 1) |-> y_start + (k - 1) * pitch]

(* fixed-count rows spread over the span with its edges included *)
RowYs_WithEdges(h, y0_inner, y1_inner) ==
    IF h.holes_per_col_set
    THEN linspace(y0_inner, y1_inner, Max(0, h.holes_per_col))
    ELSE << (y0_inner + y1_inner) \div 2 >>

(* rows that follow the pitch whenever one is given, also when
   holes_per_col is set *)
RowYs_PitchFirst(h, y0_inner, y1_inner) ==
    LET centre == <<(y0_inner + y1_inner) \div 2>>
        pitch_y == PitchY(h)
        y_start == y0_inner + (pitch_y \div 2)
        y_stop == y1_inner - (pitch_y \div 2)
    IN  IF pitch_y > 0
        THEN IF y_stop < y_start THEN centre
             ELSE arange(y_start, y_stop, pitch_y)
        ELSE IF h.holes_per_col_set
             THEN LET all == linspace(y0_inner, y1_inner, Max(0, h.holes_per_col) + 2)
                  IN  [k \in 1..Max(0, h.holes_per_col) |-> all[k + 1]]
             ELSE centre

(* lines 171-190: the row positions *)
RowYs(h, y0_inner, y1_inner) ==
    LET centre == <<(y0_inner + y1_inner) \div 2>>
    IN  IF h.holes_per_col_set
        THEN LET Nrows == Max(0, h.holes_per_col)
             IN  IF Nrows = 0 THEN << >>
                 ELSE IF Nrows = 1 THEN centre
                 ELSE LET all == linspace(y0_inner, y1_inner, Nrows + 2)
                      IN  [k \in 1..Nrows |-> all[k + 1]]
        ELSE LET pitch_y == PitchY(h)
                 y_start == y0_inner + (pitch_y \div 2)
                 y_stop == y1_inner - (pitch_y \div 2)
             IN  IF pitch_y > 0
                 THEN IF y_stop < y_start THEN centre
                      ELSE arange(y_start, y_stop, pitch_y)
                 ELSE centre

(* lines 196-197 *)
Keepout(h, w) == (w.width_sin_um \div 2) + (h.hole_diam_um \div 2) + h.avoid_clearance_um

(* lines 203-208: a candidate is skipped when the keep-out is positive and
   the centerline is nearer than the keep-out *)
HoleAccepted(x, y, pts, keepout_um) ==
    ~(keepout_um > 0 /\ min_dist2_point_polyline(x, y, pts) < keepout_um * keepout_um)

(* the candidates of the double loop, column by column *)
Candidates(seam_xs, ys) ==
    [k \in 1..(Len(seam_xs) * Len(ys)) |->
        <<seam_xs[((k - 1) \div Len(ys)) + 1], ys[((k - 1) % Len(ys)) + 1]>>]

(* candidates computed without the test for fewer than two legs *)
HoleCandidates_NoLegTest(pts_f, plate_bbox_xyxy, h, mx, my, x_range, y_range) ==
    IF Len(pts_f) < 2 THEN << >>
    ELSE LET x_centers == XCenters(pts_f)
             inner == InnerRect(plate_bbox_xyxy, mx, my, x_range, y_range)
         IN  IF ~inner.ok THEN << >>
             ELSE LET seam_xs == SeamXs(SortAsc(x_centers), inner.x0, inner.x1)
                      ys == RowYs(h, inner.y0, inner.y1)
                  IN  IF Len(seam_xs) = 0 \/ Len(ys) = 0 THEN << >>
                      ELSE Candidates(seam_xs, ys)

(* lines 101-193: the candidate centres of add_release_rows_at_seams_final_frame,
   empty on each of its early returns *)
HoleCandidates(pts_f, plate_bbox_xyxy, h, mx, my, x_range, y_range) ==
    IF Len(pts_f) < 2 THEN << >>
    ELSE LET x_centers == XCenters(pts_f)
             inner == InnerRect(plate_bbox_xyxy, mx, my, x_range, y_range)
         IN  IF Len(x_centers) < 2 \/ ~inner.ok THEN << >>
             ELSE LET seam_xs == SeamXs(SortAsc(x_centers), inner.x0, inner.x1)
                      ys == RowYs(h, inner.y0, inner.y1)
                  IN  IF Len(seam_xs) = 0 \/ Len(ys) = 0 THEN << >>
                      ELSE Candidates(seam_xs, ys)

(* add_release_rows_at_seams_final_frame with pts_final given: the hole
   centres it adds to the component, in the order it adds them *)
add_release_rows_at_seams_final_frame(pts_f, plate_bbox_xyxy, h, w, mx, my, x_range, y_range) ==
    LET keepout_um == Keepout(h, w)
    IN  SelectSeq(HoleCandidates(pts_f, plate_bbox_xyxy, h, mx, my, x_range, y_range),
                  LAMBDA c : HoleAccepted(c[1], c[2], pts_f, keepout_um))

----------------------------------------------------------------------------
(* cells/stack.py *)

(* a plate of the width given, not widened to the path and its margins *)
PlateRect_WidthAsGiven(pts, pl) ==
    LET xmin == SetMin(Xs(pts))
        xmax == SetMax(Xs(pts))
        ymin == SetMin(Ys(pts))
        ymax == SetMax(Ys(pts))
        xspan == Max(MIN_SIZE, xmax - xmin)
        ycenter == (ymin + ymax) \div 2
        rect_l == IF pl.length_set THEN pl.mstack_rect_length_um
                  ELSE xspan + 2 * pl.mx_margin
        rect_left_x == IF pl.length_set THEN xmin ELSE xmin - pl.mx_margin
        l == Max(MIN_SIZE, rect_l)
        w == Max(MIN_SIZE, pl.mstack_rect_width_um)
    IN  [x |-> rect_left_x + pl.mstack_rect_dx_um,
         y |-> (ycenter - (w \div 2)) + pl.mstack_rect_dy_um,
         w |-> l, h |-> w,
         rect_left_x |-> rect_left_x, ycenter |-> ycenter]

(* lines 34-56: the size and the lower left corner of the plate rectangles *)
PlateRect(pts, pl) ==
    LET xmin == SetMin(Xs(pts))
        xmax == SetMax(Xs(pts))
        ymin == SetMin(Ys(pts))
        ymax == SetMax(Ys(pts))
        xspan == Max(MIN_SIZE, xmax - xmin)
        yspan == Max(MIN_SIZE, ymax - ymin)
        ycenter == (ymin + ymax) \div 2
        rect_l == IF pl.length_set THEN pl.mstack_rect_length_um
                  ELSE xspan + 2 * pl.mx_margin
        rect_left_x == IF pl.length_set THEN xmin ELSE xmin - pl.mx_margin
        rect_w == Max(pl.mstack_rect_width_um, yspan + 2 * pl.my_margin)
        l == Max(MIN_SIZE, rect_l)
        w == Max(MIN_SIZE, rect_w)
    IN  [x |-> rect_left_x + pl.mstack_rect_dx_um,
         y |-> (ycenter - (w \div 2)) + pl.mstack_rect_dy_um,
         w |-> l, h |-> w,
         rect_left_x |-> rect_left_x, ycenter |-> ycenter]

(* an a-Si rectangle of the width given, not clamped to the plate height *)
AsiRect_Unclamped(pts, pl, a) ==
    LET pr == PlateRect(pts, pl)
        asi_w == a.asi_rect_width_um
        asi_len == pr.w + Max(0, a.asi_overhang_left_um)
    IN  [x |-> pr.rect_left_x,
         y |-> pr.ycenter - (asi_w \div 2),
         w |-> Max(MIN_SIZE, asi_len), h |-> Max(MIN_SIZE, asi_w)]

(* lines 72-84: the a-Si rectangle at its rough place *)
AsiRect(pts, pl, a) ==
    LET pr == PlateRect(pts, pl)
        asi_w == Min(a.asi_rect_width_um, pr.h)
        asi_len == pr.w + Max(0, a.asi_overhang_left_um)
    IN  [x |-> pr.rect_left_x,
         y |-> pr.ycenter - (asi_w \div 2),
         w |-> Max(MIN_SIZE, asi_len), h |-> Max(MIN_SIZE, asi_w)]

Shape(layer, kind, rect) ==
    [layer |-> layer, kind |-> kind, x |-> rect.x, y |-> rect.y, w |-> rect.w, h |-> rect.h]

(* a plate builder that draws the plate on the top Al layer only *)
build_plate_and_asi_unrotated_TopOnly(pts, pl, a) ==
    LET pr == PlateRect(pts, pl)
        plates == << Shape("AL_TOP", "rect", pr) >>
    IN  IF a.add_asi THEN Append(plates, Shape("ASI", "rect", AsiRect(pts, pl, a)))
        ELSE plates

(* build_plate_and_asi_unrotated: the references it adds to the component *)
build_plate_and_asi_unrotated(pts, pl, a) ==
    LET pr == PlateRect(pts, pl)
        plates == << Shape("AL_BOTTOM", "rect", pr), Shape("ALN", "rect", pr),
                     Shape("AL_TOP", "rect", pr) >>
    IN  IF a.add_asi THEN Append(plates, Shape("ASI", "rect", AsiRect(pts, pl, a)))
        ELSE plates

(* align_asi_to_plate_left: the move (dx, dy) of the a-Si reference *)
align_asi_to_plate_left(r_plate, r_a, a) ==
    LET pb == bbox_xyxy(r_plate)
        ab == bbox_xyxy(r_a)
    IN  << (pb[1] - ab[1]) - Max(0, a.asi_overhang_left_um) + a.asi_rect_dx_um,
           (pb[4] - ab[4]) + a.asi_rect_dy_um >>

----------------------------------------------------------------------------
(* Inputs *)

SerpInputs ==
    [ iterations     : 0..MaxIter,
      radius_um      : {RUnit * k : k \in 0..MaxRadiusSteps},
      length_um      : {-RUnit} \cup {RUnit * k : k \in 0..MaxLenSteps},
      npts_per_bend  : {MinNpts - 1, MinNpts},
      band_set       : BOOLEAN,
      band_height_um : {RUnit * k : k \in 0..MaxBandSteps},
      y_margin_um    : {0, RUnit},
      y_offset_um    : {0} ]

(* the inputs of the cell builder, group by group *)
CellSerpInputs ==
    [ iterations     : 0..MaxIter,
      radius_um      : {RUnit * k : k \in 1..MaxRadiusSteps},
      length_um      : {RUnit * k : k \in 0..MaxLenSteps},
      npts_per_bend  : {MinNpts},
      band_set       : {FALSE},
      band_height_um : {0},
      y_margin_um    : {0},
      y_offset_um    : {0, 4} ]

(* the serpentines with at least two vertical legs *)
HoleSerpInputs ==
    [ iterations     : {2, MaxIter},
      radius_um      : {RUnit, 2 * RUnit},
      length_um      : {RUnit, RUnit * MaxLenSteps},
      npts_per_bend  : {MinNpts},
      band_set       : {FALSE},
      band_height_um : {0},
      y_margin_um    : {0},
      y_offset_um    : {0, 4} ]

WidthInputs ==
    [ width_sin_um : {2}, width_oxide_um : {6}, add_oxide : BOOLEAN ]

PlateInputs ==
    { pl \in [ length_set            : BOOLEAN,
               mstack_rect_length_um : {0, 30},
               mstack_rect_width_um  : {6},
               mstack_rect_dx_um     : {0},
               mstack_rect_dy_um     : {0, -10},
               mx_margin             : {0, 4},
               my_margin             : {0, 4} ] :
        pl.length_set <=> pl.mstack_rect_length_um # 0 }

AsiInputs ==
    { a \in [ add_asi              : BOOLEAN,
              asi_rect_width_um    : {20, 200},
              asi_overhang_left_um : {0},
              asi_rect_dx_um       : {0},
              asi_rect_dy_um       : {0} ] :
        ~a.add_asi => a.asi_rect_width_um = 20 }

HoleInputs ==
    { h \in [ add_holes          : {TRUE},
              hole_diam_um       : {2, 6},
              hole_pitch_um      : {6},
              hole_pitch_y_set   : {FALSE},
              hole_pitch_y_um    : {0},
              holes_per_col_set  : BOOLEAN,
              holes_per_col      : 0..MaxRows,
              avoid_clearance_um : {2} ] :
        ~h.holes_per_col_set => h.holes_per_col = 0 }

DefaultWidths == [ width_sin_um |-> 2, width_oxide_um |-> 6, add_oxide |-> TRUE ]
DefaultPlate ==
    [ length_set |-> FALSE, mstack_rect_length_um |-> 0, mstack_rect_width_um |-> 6,
      mstack_rect_dx_um |-> 0, mstack_rect_dy_um |-> -10, mx_margin |-> 4, my_margin |-> 0 ]
DefaultAsi ==
    [ add_asi |-> TRUE, asi_rect_width_um |-> 20, asi_overhang_left_um |-> 0,
      asi_rect_dx_um |-> 0, asi_rect_dy_um |-> 0 ]
DefaultHoles ==
    [ add_holes |-> TRUE, hole_diam_um |-> 2, hole_pitch_um |-> 6,
      hole_pitch_y_set |-> FALSE, hole_pitch_y_um |-> 0,
      holes_per_col_set |-> FALSE, holes_per_col |-> 0, avoid_clearance_um |-> 2 ]
DefaultBuild == [ m1_inner_margin_um |-> 20 ]

(* BuildParams.m1_inner_margin_um: the default, the 6.0 of
   build_design2_with_backing.py and 0 *)
BuildInputs == { [ m1_inner_margin_um |-> m ] : m \in {0, 6, 20} }

(* build_design1.py line 52: build.gds_path *)
DefaultGdsPath == <<"design1_serpentine_multilayer", "gds">>

(* write_gds_with_meta has not been called *)
NoWriterCall ==
    /\ gds_path = DefaultGdsPath
    /\ out_files = << >>
    /\ out_path = << >>

NoBox == [set |-> FALSE, x0 |-> 0, y0 |-> 0, x1 |-> 0, y1 |-> 0]

InitLocals ==
    /\ pc = "validate"
    /\ R = 0
    /\ i = 0
    /\ P = << <<0, 0>> >>
    /\ end_angle = 0
    /\ err = ""
    /\ D = << >>
    /\ r_asi = 0
    /\ plate_bbox = <<0, 0, 0, 0>>
    /\ asi_box = NoBox
    /\ pts_final = << >>
    /\ out_len = 0
    /\ out_pts = << >>
    /\ files = {}
    /\ NoWriterCall

NoRect == [ok |-> FALSE, x0 |-> 0, x1 |-> 0, y0 |-> 0, y1 |-> 0]

NoPlacerLocals ==
    /\ loc_x_centers = << >>
    /\ loc_inner = NoRect
    /\ loc_seam_xs = << >>
    /\ loc_ys = << >>

NoDirectCall ==
    /\ in_pts = << >>
    /\ in_s = << >>
    /\ NoPlacerLocals

(* serpentine_path_um called on its own *)
InitSerp ==
    /\ serp \in {s \in SerpInputs : ~s.band_set => (s.band_height_um = 0 /\ s.y_margin_um = 0)}
    /\ widths = DefaultWidths
    /\ plate = DefaultPlate
    /\ asi = DefaultAsi
    /\ holes = DefaultHoles
    /\ build = DefaultBuild
    /\ InitLocals
    /\ NoDirectCall

(* build_serpentine_multilayer_cell called with a device configuration.
   The configurations are explored in two families: every serpentine, also
   the rejected ones, with the feature flags on and off; and the serpentines
   with at least two vertical legs with every plate, a-Si and hole group. *)
FlagConfigurations ==
    /\ serp \in CellSerpInputs
    /\ widths \in WidthInputs
    /\ plate = DefaultPlate
    /\ asi \in {DefaultAsi, [DefaultAsi EXCEPT !.add_asi = FALSE],
                [DefaultAsi EXCEPT !.asi_rect_dx_um = 6, !.asi_rect_dy_um = 4],
                [DefaultAsi EXCEPT !.asi_rect_width_um = 200, !.asi_rect_dy_um = -4]}
    /\ holes \in {DefaultHoles, [DefaultHoles EXCEPT !.add_holes = FALSE]}
    /\ build \in BuildInputs

HoleConfigurations ==
    /\ serp \in HoleSerpInputs
    /\ widths = DefaultWidths
    /\ plate \in PlateInputs
    /\ asi \in AsiInputs
    /\ holes \in HoleInputs
    /\ build = DefaultBuild

Init ==
    /\ FlagConfigurations \/ HoleConfigurations
    /\ InitLocals
    /\ NoDirectCall

----------------------------------------------------------------------------
(* serpentine_path_um *)

(* a validation that also rejects a zero straight length *)
ValidationError_RejectsZeroLength(s) ==
    IF s.iterations < MinIter THEN "iterations"
    ELSE IF s.radius_um <= 0 THEN "radius_um"
    ELSE IF s.length_um <= 0 THEN "length_um"
    ELSE IF s.npts_per_bend < MinNpts THEN "npts_per_bend"
    ELSE ""

(* lines 25-33: the first failing check raises *)
ValidationError(s) ==
    IF s.iterations < MinIter THEN "iterations"
    ELSE IF s.radius_um <= 0 THEN "radius_um"
    ELSE IF s.length_um < 0 THEN "length_um"
    ELSE IF s.npts_per_bend < MinNpts THEN "npts_per_bend"
    ELSE ""

Validate ==
    /\ pc = "validate"
    /\ err' = ValidationError(serp)
    /\ pc' = IF err' = "" THEN "radius" ELSE "error"
    /\ UNCHANGED <<serp, R, i, P, end_angle>>
    /\ UNCHANGED <<files, writerVars, paramVars, cellVars, geomVars, placerVars>>

(* line 38: usable_H = band_height_um - 2*y_margin_um *)
UsableH(s) == s.band_height_um - 2 * s.y_margin_um

(* a band that never clamps the radius *)
EffectiveRadius_Unclamped(s) == s.radius_um

(* lines 46-50: the clamped radius *)
EffectiveRadius(s) ==
    LET max_R == Max(ClampEps, (UsableH(s) \div 2) - ClampEps)
        R_eff == Min(s.radius_um, max_R)
    IN  IF R_eff < s.radius_um THEN R_eff ELSE s.radius_um

(* lines 36-50 *)
ChooseRadius ==
    /\ pc = "radius"
    /\ IF serp.band_set /\ UsableH(serp) <= 0
       THEN /\ err' = "band"
            /\ pc' = "error"
            /\ R' = serp.radius_um
       ELSE /\ err' = err
            /\ pc' = "loop"
            /\ R' = IF serp.band_set THEN EffectiveRadius(serp) ELSE serp.radius_um
    /\ UNCHANGED <<serp, i, P, end_angle>>
    /\ UNCHANGED <<files, writerVars, paramVars, cellVars, geomVars, placerVars>>

(* bend senses that do not alternate from motif to motif *)
BendSenses_SameEveryMotif(k) == <<1, -1>>

(* line 56: the bend senses (a1, a2) of motif k, in quarter turns *)
BendSenses(k) == IF k % 2 = 0 THEN <<1, -1>> ELSE <<-1, 1>>

(* line 54: the loop test; the loop ends with return P *)
LoopTest ==
    /\ pc = "loop"
    /\ pc' = IF i < serp.iterations THEN "bend1" ELSE "built"
    /\ UNCHANGED <<serp, R, i, P, end_angle, err>>
    /\ UNCHANGED <<files, writerVars, paramVars, cellVars, geomVars, placerVars>>

(* line 57 *)
Bend1 ==
    /\ pc = "bend1"
    /\ P' = PathAppend(P, Euler(R, BendSenses(i)[1]), end_angle)
    /\ end_angle' = (end_angle + BendSenses(i)[1]) % 4
    /\ pc' = "straight"
    /\ UNCHANGED <<serp, R, i, err>>
    /\ UNCHANGED <<files, writerVars, paramVars, cellVars, geomVars, placerVars>>

(* line 58 *)
StraightStep ==
    /\ pc = "straight"
    /\ P' = PathAppend(P, Straight(serp.length_um), end_angle)
    /\ pc' = "bend2"
    /\ UNCHANGED <<serp, R, i, end_angle, err>>
    /\ UNCHANGED <<files, writerVars, paramVars, cellVars, geomVars, placerVars>>

(* line 59, and the loop's increment *)
Bend2 ==
    /\ pc = "bend2"
    /\ P' = PathAppend(P, Euler(R, BendSenses(i)[2]), end_angle)
    /\ end_angle' = (end_angle + BendSenses(i)[2]) % 4
    /\ i' = i + 1
    /\ pc' = "loop"
    /\ UNCHANGED <<serp, R, err>>
    /\ UNCHANGED <<files, writerVars, paramVars, cellVars, geomVars, placerVars>>

----------------------------------------------------------------------------
(* cells/serpentine_multilayer.py: build_serpentine_multilayer_cell *)

PathBox(pts, width) ==
    [x |-> SetMin(Xs(pts)), y |-> SetMin(Ys(pts)) - (width \div 2),
     w |-> SetMax(Xs(pts)) - SetMin(Xs(pts)),
     h |-> SetMax(Ys(pts)) - SetMin(Ys(pts)) + width]

(* lines 73-80: the component with the oxide strip, if enabled, and the SiN
   strip *)
AddWaveguide ==
    /\ pc = "built"
    /\ D' = (IF widths.add_oxide
             THEN << Shape("OXIDE", "strip", PathBox(P, widths.width_oxide_um)) >>
             ELSE << >>)
            \o << Shape("SIN", "strip", PathBox(P, widths.width_sin_um)) >>
    /\ pc' = "shift"
    /\ UNCHANGED <<serp, R, i, P, end_angle, err, r_asi, plate_bbox, asi_box, pts_final>>
    /\ UNCHANGED <<files, writerVars, paramVars, geomVars, placerVars>>

MoveY(ref, dy) == [ref EXCEPT !.y = @ + dy]
MoveXY(ref, d) == [ref EXCEPT !.x = @ + d[1], !.y = @ + d[2]]

(* lines 82-87: core and cladding move together by serp.y_offset_um *)
ShiftWaveguide ==
    /\ pc = "shift"
    /\ D' = IF serp.y_offset_um # 0
            THEN [k \in 1..Len(D) |-> MoveY(D[k], serp.y_offset_um)]
            ELSE D
    /\ pc' = "plate"
    /\ UNCHANGED <<serp, R, i, P, end_angle, err, r_asi, plate_bbox, asi_box, pts_final>>
    /\ UNCHANGED <<files, writerVars, paramVars, geomVars, placerVars>>

(* lines 89-97: the plate rectangles and the a-Si rectangle, sized on the
   points of the path *)
BuildPlate ==
    /\ pc = "plate"
    /\ D' = D \o build_plate_and_asi_unrotated(P, plate, asi)
    /\ r_asi' = IF asi.add_asi THEN Len(D') ELSE 0
    /\ pc' = "align"
    /\ UNCHANGED <<serp, R, i, P, end_angle, err, plate_bbox, asi_box, pts_final>>
    /\ UNCHANGED <<files, writerVars, paramVars, geomVars, placerVars>>

(* the index in D of the plate reference on a layer *)
PlateIndex(d, layer) == CHOOSE k \in 1..Len(d) : d[k].layer = layer

(* line 100 *)
AlignAsi ==
    /\ pc = "align"
    /\ D' = IF r_asi # 0 /\ asi.add_asi
            THEN [D EXCEPT ![r_asi] =
                     MoveXY(@, align_asi_to_plate_left(D[PlateIndex(D, "AL_TOP")], @, asi))]
            ELSE D
    /\ pc' = "bboxes"
    /\ UNCHANGED <<serp, R, i, P, end_angle, err, r_asi, plate_bbox, asi_box, pts_final>>
    /\ UNCHANGED <<files, writerVars, paramVars, geomVars, placerVars>>

(* _union_bbox_of_refs over r_plate_all *)
union_bbox_of_refs(refs) ==
    << SetMin({bbox_xyxy(r)[1] : r \in refs}), SetMin({bbox_xyxy(r)[2] : r \in refs}),
       SetMax({bbox_xyxy(r)[3] : r \in refs}), SetMax({bbox_xyxy(r)[4] : r \in refs}) >>

PlateRefs(d) == {d[k] : k \in {j \in 1..Len(d) : d[j].layer \in {"AL_BOTTOM", "ALN", "AL_TOP"}}}

(* lines 102-114 *)
ReadBBoxes ==
    /\ pc = "bboxes"
    /\ plate_bbox' = union_bbox_of_refs(PlateRefs(D))
    /\ asi_box' = IF r_asi # 0
                  THEN LET ab == bbox_xyxy(D[r_asi])
                       IN  [set |-> TRUE, x0 |-> ab[1], y0 |-> ab[2], x1 |-> ab[3], y1 |-> ab[4]]
                  ELSE NoBox
    /\ pc' = "holes"
    /\ UNCHANGED <<serp, R, i, P, end_angle, err, D, r_asi, pts_final>>
    /\ UNCHANGED <<files, writerVars, paramVars, geomVars, placerVars>>

(* the centerline samples left where the path was synthesized *)
SampledCenterline_Unshifted(pts, s) ==
    sample_points_um(pts, linspace(0, path_length_um(pts), SampleN))

(* lines 119-125: the centerline samples, moved like the waveguide *)
SampledCenterline(pts, s) ==
    LET sampled == sample_points_um(pts, linspace(0, path_length_um(pts), SampleN))
        dy == s.y_offset_um
    IN  IF dy # 0
        THEN [k \in 1..Len(sampled) |-> <<sampled[k][1], sampled[k][2] + dy>>]
        ELSE sampled

(* a Y window that is never given to the placer *)
YWindow_NotGiven(box) == [set |-> FALSE, lo |-> box.y0, hi |-> box.y1]

XWindow(box) == [set |-> box.set, lo |-> box.x0, hi |-> box.x1]
YWindow(box) == [set |-> box.set, lo |-> box.y0, hi |-> box.y1]

HoleShape(c, h) ==
    [layer |-> "RELEASE", kind |-> "circle", x |-> c[1], y |-> c[2],
     w |-> h.hole_diam_um, h |-> h.hole_diam_um]

(* lines 116-146 *)
ReleaseHoles ==
    /\ pc = "holes"
    /\ IF holes.add_holes
       THEN \E pts \in {SampledCenterline(P, serp)} :
            \E centres \in {add_release_rows_at_seams_final_frame(
                                 pts, plate_bbox, holes, widths,
                                 plate.mx_margin, plate.my_margin,
                                 XWindow(asi_box), YWindow(asi_box))} :
               /\ pts_final' = pts
               /\ D' = D \o [k \in 1..Len(centres) |-> HoleShape(centres[k], holes)]
       ELSE UNCHANGED <<D, pts_final>>
    /\ pc' = "strips"
    /\ UNCHANGED <<serp, R, i, P, end_angle, err, r_asi, plate_bbox, asi_box>>
    /\ UNCHANGED <<files, writerVars, paramVars, geomVars, placerVars>>

(* lines 149-178 with side_margin_um = 0, symmetric_margin_um = 0 and
   fixed_height_um = None: [ok, x, y, w, h] *)
bottom_strip_window(d, ra, pb) ==
    LET xL == pb[1]
        xR == pb[3]
        y0 == pb[2]
        y1 == IF ra # 0 THEN bbox_xyxy(d[ra])[2] ELSE y0 + STRIP_HEIGHT
    IN  [ok |-> ~(xR <= xL) /\ ~(y1 <= y0), x |-> xL, y |-> y0, w |-> xR - xL, h |-> y1 - y0]

(* strips added by a step that also aligns the a-Si rectangle once more,
   with its own fine offset *)
AddStrips_RealignsAsi ==
    /\ pc = "strips"
    /\ LET ws == bottom_strip_window(D, r_asi, plate_bbox)
           m1_h == Max(0, ws.h - 2 * INNER_MARGIN)
           y_center == ws.y + (ws.h \div 2)
           y0_m1 == y_center - (m1_h \div 2)
           moved == IF r_asi # 0
                    THEN [D EXCEPT ![r_asi] = MoveXY(@, <<0, -INNER_MARGIN>>)]
                    ELSE D
       IN  D' = IF ws.ok
                THEN moved \o << Shape("OX_LOWER_STRIP", "rect", ws),
                                 Shape("OX_UPPER_STRIP", "rect", ws),
                                 Shape("M1", "rect", [x |-> ws.x, y |-> y0_m1, w |-> ws.w, h |-> m1_h]) >>
                ELSE moved
    /\ pc' = "meta"
    /\ UNCHANGED <<serp, R, i, P, end_angle, err, r_asi, plate_bbox, asi_box, pts_final>>
    /\ UNCHANGED <<files, writerVars, paramVars, geomVars, placerVars>>

(* lines 180-201: two oxide strips on the window and M1 centred in it *)
AddStrips ==
    /\ pc = "strips"
    /\ LET ws == bottom_strip_window(D, r_asi, plate_bbox)
           m1_h == Max(0, ws.h - 2 * INNER_MARGIN)
           y_center == ws.y + (ws.h \div 2)
           y0_m1 == y_center - (m1_h \div 2)
       IN  D' = IF ws.ok
                THEN D \o << Shape("OX_LOWER_STRIP", "rect", ws),
                             Shape("OX_UPPER_STRIP", "rect", ws),
                             Shape("M1", "rect", [x |-> ws.x, y |-> y0_m1, w |-> ws.w, h |-> m1_h]) >>
                ELSE D
    /\ pc' = "meta"
    /\ UNCHANGED <<serp, R, i, P, end_angle, err, r_asi, plate_bbox, asi_box, pts_final>>
    /\ UNCHANGED <<files, writerVars, paramVars, geomVars, placerVars>>

(* lines 203-279: the metadata is assembled and (D, meta) returned *)
ReturnCell ==
    /\ pc = "meta"
    /\ pc' = "done"
    /\ UNCHANGED <<serp, R, i, P, end_angle, err>>
    /\ UNCHANGED <<files, writerVars, paramVars, cellVars, geomVars, placerVars>>

Next ==
    \/ Validate
    \/ ChooseRadius
    \/ LoopTest
    \/ Bend1
    \/ StraightStep
    \/ Bend2
    \/ AddWaveguide
    \/ ShiftWaveguide
    \/ BuildPlate
    \/ AlignAsi
    \/ ReadBBoxes
    \/ ReleaseHoles
    \/ AddStrips
    \/ ReturnCell

Spec == Init /\ [][Next]_vars
----------------------------------------------------------------------------
(* examples/build_design1.py: main builds the cell and then writes it. The
   configuration main fixes is generalised to the configurations of Init;
   an exception raised by the builder leaves main at position "error". *)

(* Path.with_suffix appending the suffix without removing the old one *)
with_suffix_Append(name, suffix) == name \o suffix

(* pathlib.Path.with_suffix on a file name: the last suffix, if the name
   has one, is replaced by the given suffix, else the suffix is appended *)
with_suffix(name, suffix) ==
    IF Len(name) >= 2 THEN SubSeq(name, 1, Len(name) - 1) \o suffix
    ELSE name \o suffix

(* line 59 reached after the builder failed, as if main caught the error *)
WriteGds_AfterFailure ==
    /\ pc \in {"done", "error"}
    /\ files' = files \cup {"gds"}
    /\ out_files' = Append(out_files, with_suffix(gds_path, <<"gds">>))
    /\ pc' = "gds_written"
    /\ UNCHANGED <<serp, R, i, P, end_angle, err, gds_path, out_path>>
    /\ UNCHANGED <<paramVars, cellVars, geomVars, placerVars>>

(* main line 59 and write.py 31-32: once the builder has returned (comp,
   meta), the path is forced to the suffix .gds and comp.write_gds writes
   the layout *)
WriteGds ==
    /\ pc = "done"
    /\ files' = files \cup {"gds"}
    /\ out_files' = Append(out_files, with_suffix(gds_path, <<"gds">>))
    /\ pc' = "gds_written"
    /\ UNCHANGED <<serp, R, i, P, end_angle, err, gds_path, out_path>>
    /\ UNCHANGED <<paramVars, cellVars, geomVars, placerVars>>

(* write.py 34-38: the metadata sidecar is written next to the layout and
   the .gds path is returned *)
WriteMeta ==
    /\ pc = "gds_written"
    /\ files' = files \cup {"meta"}
    /\ \E gds \in {with_suffix(gds_path, <<"gds">>)} :
          /\ out_files' = Append(out_files, with_suffix(gds, <<"meta", "json">>))
          /\ out_path' = gds
    /\ pc' = "written"
    /\ UNCHANGED <<serp, R, i, P, end_angle, err, gds_path>>
    /\ UNCHANGED <<paramVars, cellVars, geomVars, placerVars>>

NextMain ==
    \/ Validate
    \/ ChooseRadius
    \/ LoopTest
    \/ Bend1
    \/ StraightStep
    \/ Bend2
    \/ AddWaveguide
    \/ ShiftWaveguide
    \/ BuildPlate
    \/ AlignAsi
    \/ ReadBBoxes
    \/ ReleaseHoles
    \/ AddStrips
    \/ ReturnCell
    \/ WriteGds
    \/ WriteMeta

MainSpec == Init /\ [][NextMain]_vars

----------------------------------------------------------------------------
(* The serpentine synthesizer alone *)

NextSerp ==
    \/ Validate
    \/ ChooseRadius
    \/ LoopTest
    \/ Bend1
    \/ StraightStep
    \/ Bend2

SerpSpec == InitSerp /\ [][NextSerp]_vars

----------------------------------------------------------------------------
(* utils/geometry.py called directly on a path given by its points *)

BoundedSeq(S, n) == UNION {[1..k -> S] : k \in 0..n}

GeomPoints == {0, 3} \X {0, 4}
GeomSValues == {0, 2, 7}

DefaultSerp ==
    [ iterations |-> 1, radius_um |-> RUnit, length_um |-> RUnit,
      npts_per_bend |-> MinNpts, band_set |-> FALSE, band_height_um |-> 0,
      y_margin_um |-> 0, y_offset_um |-> 0 ]

InitGeom ==
    /\ in_pts \in BoundedSeq(GeomPoints, MaxPts)
    /\ in_s \in BoundedSeq(GeomSValues, MaxS)
               \cup {linspace(0, path_length_um(in_pts), N) : N \in 0..MaxN}
    /\ serp = DefaultSerp
    /\ widths = DefaultWidths
    /\ plate = DefaultPlate
    /\ asi = DefaultAsi
    /\ holes = DefaultHoles
    /\ build = DefaultBuild
    /\ pc = "length"
    /\ R = 0
    /\ i = 0
    /\ P = << <<0, 0>> >>
    /\ end_angle = 0
    /\ err = ""
    /\ D = << >>
    /\ r_asi = 0
    /\ plate_bbox = <<0, 0, 0, 0>>
    /\ asi_box = NoBox
    /\ pts_final = << >>
    /\ out_len = -1
    /\ out_pts = << <<-1, -1>> >>
    /\ NoPlacerLocals
    /\ files = {}
    /\ NoWriterCall

(* path_length_um(P) returns *)
CallPathLength ==
    /\ pc = "length"
    /\ out_len' = path_length_um(in_pts)
    /\ pc' = "sample"
    /\ UNCHANGED <<serp, R, i, P, end_angle, err, in_pts, in_s, out_pts>>
    /\ UNCHANGED <<files, writerVars, paramVars, cellVars, placerVars>>

(* sample_points_um(P, s_vals) returns *)
CallSamplePoints ==
    /\ pc = "sample"
    /\ out_pts' = sample_points_um(in_pts, in_s)
    /\ pc' = "returned"
    /\ UNCHANGED <<serp, R, i, P, end_angle, err, in_pts, in_s, out_len>>
    /\ UNCHANGED <<files, writerVars, paramVars, cellVars, placerVars>>

NextGeom ==
    \/ CallPathLength
    \/ CallSamplePoints

GeomSpec == InitGeom /\ [][NextGeom]_vars

----------------------------------------------------------------------------
(* features/release.py: add_release_rows_at_seams_final_frame called directly
   with a pre-sampled centerline pts_final, a plate box, margins and windows *)

LegXs == {0, 8, 20}

(* one vertical leg at x between y = 0 and y = 20, of three samples (two at
   x = 20), walked upwards or downwards *)
Leg(x, up) ==
    LET mid == IF x = 20 THEN << >> ELSE << <<x, 10>> >>
    IN  IF up THEN << <<x, 0>> >> \o mid \o << <<x, 20>> >>
        ELSE << <<x, 20>> >> \o mid \o << <<x, 0>> >>

(* the centerline that walks the legs at xs in turn, up and down alternately *)
RECURSIVE LegPathFrom(_, _, _)
LegPathFrom(xs, k, acc) ==
    IF k > Len(xs) THEN acc
    ELSE LegPathFrom(xs, k + 1, acc \o Leg(xs[k], k % 2 = 1))

LegPath(xs) == LegPathFrom(xs, 1, << >>)

PlacerPaths == {LegPath(xs) : xs \in BoundedSeq(LegXs, MaxLegs)}

PlacerBBoxes == { <<-4, -4, 24, 24>>, <<6, 0, 19, 20>>, <<0, 0, 6, 20>>, <<0, 0, 8, 20>> }

PlacerPlates ==
    { [DefaultPlate EXCEPT !.mx_margin = m[1], !.my_margin = m[2]] : m \in {0, 4} \X {0, 4} }

PlacerWindows ==
    { NoBox,
      [set |-> TRUE, x0 |-> 0, y0 |-> 10, x1 |-> 20, y1 |-> 20],
      [set |-> TRUE, x0 |-> 30, y0 |-> 0, x1 |-> 40, y1 |-> 20],
      [set |-> TRUE, x0 |-> 0, y0 |-> 30, x1 |-> 20, y1 |-> 40] }

PlacerHoles ==
    { h \in [ add_holes          : {TRUE},
              hole_diam_um       : {2},
              hole_pitch_um      : {-6, 0, 6, 30},
              hole_pitch_y_set   : BOOLEAN,
              hole_pitch_y_um    : {-6, 0, 10},
              holes_per_col_set  : BOOLEAN,
              holes_per_col      : (-1)..MaxRows,
              avoid_clearance_um : {2} ] :
        /\ ~h.holes_per_col_set => h.holes_per_col = 0
        /\ ~h.hole_pitch_y_set => h.hole_pitch_y_um = 0
        /\ h.hole_pitch_y_set => h.hole_pitch_um \in {6, 30}
        /\ h.hole_pitch_y_um = -6 => h.hole_pitch_um = 30
        /\ h.holes_per_col_set =>
               \/ h.hole_pitch_um = 6 /\ ~h.hole_pitch_y_set
               \/ /\ h.holes_per_col = 2
                  /\ \/ h.hole_pitch_um = 30 /\ ~h.hole_pitch_y_set
                     \/ h.hole_pitch_um = 6 /\ h.hole_pitch_y_um = 10 }

InitPlacer ==
    /\ pts_final \in PlacerPaths
    /\ plate_bbox \in PlacerBBoxes
    /\ plate \in PlacerPlates
    /\ asi_box \in PlacerWindows
    /\ holes \in PlacerHoles
    /\ widths = DefaultWidths
    /\ serp = DefaultSerp
    /\ asi = DefaultAsi
    /\ build = DefaultBuild
    /\ pc = "classify"
    /\ R = 0
    /\ i = 0
    /\ P = << <<0, 0>> >>
    /\ end_angle = 0
    /\ err = ""
    /\ D = << >>
    /\ r_asi = 0
    /\ out_len = 0
    /\ out_pts = << >>
    /\ NoDirectCall
    /\ files = {}
    /\ NoWriterCall

(* lines 100-138: the legs of the centerline; the function returns when
   there are fewer than two sample points or fewer than two legs *)
PlacerClassify ==
    /\ pc = "classify"
    /\ IF Len(pts_final) < 2 \/ Len(XCenters(pts_final)) < 2
       THEN /\ pc' = "placed"
            /\ UNCHANGED loc_x_centers
       ELSE /\ loc_x_centers' = SortAsc(XCenters(pts_final))
            /\ pc' = "inner"
    /\ UNCHANGED <<serp, R, i, P, end_angle, err, loc_inner, loc_seam_xs, loc_ys>>
    /\ UNCHANGED <<files, writerVars, paramVars, cellVars, geomVars>>

(* a placer that raises on a rectangle without positive extent *)
PlacerInnerRect_Raises ==
    /\ pc = "inner"
    /\ loc_inner' = InnerRect(plate_bbox, plate.mx_margin, plate.my_margin,
                              XWindow(asi_box), YWindow(asi_box))
    /\ pc' = IF loc_inner'.ok THEN "columns" ELSE "placed"
    /\ err' = IF loc_inner'.ok THEN err ELSE "InvalidConfiguration"
    /\ UNCHANGED <<serp, R, i, P, end_angle, loc_x_centers, loc_seam_xs, loc_ys>>
    /\ UNCHANGED <<files, writerVars, paramVars, cellVars, geomVars>>

(* lines 140-159 *)
PlacerInnerRect ==
    /\ pc = "inner"
    /\ loc_inner' = InnerRect(plate_bbox, plate.mx_margin, plate.my_margin,
                              XWindow(asi_box), YWindow(asi_box))
    /\ pc' = IF loc_inner'.ok THEN "columns" ELSE "placed"
    /\ UNCHANGED <<serp, R, i, P, end_angle, err, loc_x_centers, loc_seam_xs, loc_ys>>
    /\ UNCHANGED <<files, writerVars, paramVars, cellVars, geomVars>>

(* lines 161-167 *)
PlacerColumns ==
    /\ pc = "columns"
    /\ loc_seam_xs' = SeamXs(loc_x_centers, loc_inner.x0, loc_inner.x1)
    /\ pc' = IF Len(loc_seam_xs') = 0 THEN "placed" ELSE "rows"
    /\ UNCHANGED <<serp, R, i, P, end_angle, err, loc_x_centers, loc_inner, loc_ys>>
    /\ UNCHANGED <<files, writerVars, paramVars, cellVars, geomVars>>

(* lines 169-193 *)
PlacerRows ==
    /\ pc = "rows"
    /\ loc_ys' = RowYs(holes, loc_inner.y0, loc_inner.y1)
    /\ pc' = IF Len(loc_ys') = 0 THEN "placed" ELSE "place"
    /\ UNCHANGED <<serp, R, i, P, end_angle, err, loc_x_centers, loc_inner, loc_seam_xs>>
    /\ UNCHANGED <<files, writerVars, paramVars, cellVars, geomVars>>

(* lines 195-210 *)
PlacerPlace ==
    /\ pc = "place"
    /\ \E centres \in {SelectSeq(Candidates(loc_seam_xs, loc_ys),
                                 LAMBDA c : HoleAccepted(c[1], c[2], pts_final,
                                                         Keepout(holes, widths)))} :
          D' = D \o [k \in 1..Len(centres) |-> HoleShape(centres[k], holes)]
    /\ pc' = "placed"
    /\ UNCHANGED <<serp, R, i, P, end_angle, err, r_asi, plate_bbox, asi_box, pts_final>>
    /\ UNCHANGED <<files, writerVars, paramVars, geomVars, placerVars>>

NextPlacer ==
    \/ PlacerClassify
    \/ PlacerInnerRect
    \/ PlacerColumns
    \/ PlacerRows
    \/ PlacerPlace

PlacerSpec == InitPlacer /\ [][NextPlacer]_vars

----------------------------------------------------------------------------
(* write_gds_with_meta called directly with a component and a path *)

WriterStems == {"out", ".hidden"}
WriterSuffixes == {"gds", "txt", "meta", "json"}

(* file names with no suffix, one suffix and several suffixes *)
WriterPaths ==
    {<<st>> \o sfx : st \in WriterStems, sfx \in BoundedSeq(WriterSuffixes, MaxSuffixes)}

InitWriter ==
    /\ gds_path \in WriterPaths
    /\ out_files = << >>
    /\ out_path = << >>
    /\ files = {}
    /\ pc = "done"
    /\ serp = DefaultSerp
    /\ widths = DefaultWidths
    /\ plate = DefaultPlate
    /\ asi = DefaultAsi
    /\ holes = DefaultHoles
    /\ build = DefaultBuild
    /\ R = 0
    /\ i = 0
    /\ P = << <<0, 0>> >>
    /\ end_angle = 0
    /\ err = ""
    /\ D = << >>
    /\ r_asi = 0
    /\ plate_bbox = <<0, 0, 0, 0>>
    /\ asi_box = NoBox
    /\ pts_final = << >>
    /\ out_len = 0
    /\ out_pts = << >>
    /\ NoDirectCall

NextWriter ==
    \/ WriteGds
    \/ WriteMeta

WriterSpec == InitWriter /\ [][NextWriter]_vars

----------------------------------------------------------------------------
(* Claims about serpentine_path_um *)

InitialPath == << <<0, 0>> >>
XExtent(pts) == SetMax(Xs(pts)) - SetMin(Xs(pts))
YExtent(pts) == SetMax(Ys(pts)) - SetMin(Ys(pts))

(* the polyline length of one quarter-turn bend of radius r *)
QuarterTurnArc(r) == path_length_um(Euler(r, 1))

InvalidArguments(s) ==
    \/ s.iterations < 1
    \/ s.radius_um <= 0
    \/ s.length_um < 0
    \/ s.npts_per_bend < 8

(* C3: serpentine_path_um raises, with no path segment built, whenever
   iterations < 1, radius <= 0, length < 0 or npts_per_bend < 8, and it
   raises nothing when iterations >= 1, radius > 0, length >= 0 (length = 0
   included), npts_per_bend >= 8 and no band constraint is given. *)
C3_ValidationRejectsExactlyInvalid ==
    pc # "validate" =>
        /\ InvalidArguments(serp) =>
               (pc = "error" /\ err # "" /\ P = InitialPath /\ i = 0)
        /\ (~InvalidArguments(serp) /\ ~serp.band_set) =>
               (pc # "error" /\ err = "")

C3_Witness ==
    /\ pc = "error"
    /\ serp.npts_per_bend < 8
    /\ serp.iterations >= 1 /\ serp.radius_um > 0 /\ serp.length_um >= 0


(* C4 as stated: with a band, the radius used satisfies 0 < R <= r and
   2R < usable height, for every positive usable height. *)
C4_ClampedRadiusFitsBand ==
    (serp.band_set /\ pc \notin {"validate", "radius", "error"}) =>
        /\ 0 < R
        /\ R <= serp.radius_um
        /\ 2 * R < UsableH(serp)

(* C5 as stated: with a band, the Y extent of the returned path is at most
   band_height. *)
C5_PathFitsBand ==
    (serp.band_set /\ pc = "built") => YExtent(P) <= serp.band_height_um

(* C6 as stated: the vertical extent of the returned path is about twice
   the effective radius (between 2R and 3R) whatever the straight length,
   and the straight length adds to the horizontal extent. *)
C6_HeightAboutTwoRadii ==
    pc = "built" =>
        /\ 2 * R <= YExtent(P)
        /\ YExtent(P) <= 3 * R
        /\ XExtent(P) >= serp.iterations * serp.length_um

(* C7 as stated: the arclength of the returned path is
   iterations * (2 * quarter-turn arc of the requested radius + length). *)
C7_ArclengthOfRequestedRadius ==
    pc = "built" =>
        path_length_um(P) =
            serp.iterations * (2 * QuarterTurnArc(serp.radius_um) + serp.length_um)

(* C7, amended: the arclength of the returned path is
   iterations * (2 * quarter-turn arc of the radius used + length), where
   the radius used is the requested radius without a band and
   min(r, max(eps, usable/2 - eps)) with one. *)
C7_ArclengthOfEffectiveRadius ==
    pc = "built" =>
        LET r_used == IF serp.band_set
                      THEN Min(serp.radius_um,
                               Max(ClampEps, ((serp.band_height_um - 2 * serp.y_margin_um) \div 2)
                                             - ClampEps))
                      ELSE serp.radius_um
        IN  path_length_um(P) =
                serp.iterations * (2 * QuarterTurnArc(r_used) + serp.length_um)

C7_Witness ==
    /\ pc = "built"
    /\ serp.band_set
    /\ R < serp.radius_um
    /\ serp.iterations >= 2
    /\ serp.length_um > 0

(* the last segment of the path built so far *)
LastStep(pts) == <<pts[Len(pts)][1] - pts[Len(pts) - 1][1],
                   pts[Len(pts)][2] - pts[Len(pts) - 1][2]>>

(* C8: motif k turns +90 then -90 degrees when k is even and -90 then +90
   when k is odd: its straight runs up for even k and down for odd k, the
   heading is 0 again after every motif, and X never decreases along the
   path. *)
C8_MotifsAlternate ==
    /\ pc = "straight" => end_angle = (IF i % 2 = 0 THEN 1 ELSE 3)
    /\ (pc = "bend2" /\ serp.length_um > 0) =>
           LastStep(P) = <<0, (IF i % 2 = 0 THEN 1 ELSE -1) * serp.length_um>>
    /\ pc \in {"loop", "built"} => end_angle = 0
    /\ end_angle \in {0, 1, 3}
    /\ pc \in {"loop", "bend1", "straight", "bend2", "built"} =>
           \A k \in 1..(Len(P) - 1) : P[k][1] <= P[k + 1][1]

C8_Witness ==
    /\ pc = "bend2"
    /\ i = 1
    /\ serp.length_um > 0
    /\ LastStep(P)[2] < 0

----------------------------------------------------------------------------
(* Claims about the release holes of the built cell *)

(* the indices in D of the release holes *)
HolesOf(d) == {k \in 1..Len(d) : d[k].layer = "RELEASE"}

(* DistSteps times the vector from the point at t/DistSteps of the segment
   v-w to c *)
ProbeVector(c, v, w, t) ==
    << DistSteps * (c[1] - v[1]) - t * (w[1] - v[1]),
       DistSteps * (c[2] - v[2]) - t * (w[2] - v[2]) >>

(* C1: every release hole in the component of the built cell is at least
   width_sin_um/2 + hole_diam_um/2 + avoid_clearance_um away from the
   sampled centerline: from every vertex and from every probed point of
   every segment. *)
C1_HolesKeepOut ==
    pc = "done" =>
    \A k \in HolesOf(D) :
        \A j \in 1..(Len(pts_final) - 1) :
            \A t \in 0..DistSteps :
                LET u == ProbeVector(<<D[k].x, D[k].y>>, pts_final[j], pts_final[j + 1], t)
                    twice_threshold == widths.width_sin_um + holes.hole_diam_um
                                       + 2 * holes.avoid_clearance_um
                IN  4 * (u[1] * u[1] + u[2] * u[2]) >=
                        twice_threshold * twice_threshold * DistSteps * DistSteps

(* holes were placed and at least one candidate was left out *)
C1_Witness ==
    /\ pc = "done"
    /\ HolesOf(D) # {}
    /\ Cardinality(HolesOf(D)) <
           Len(HoleCandidates(pts_final, plate_bbox, holes,
                              plate.mx_margin, plate.my_margin,
                              XWindow(asi_box), YWindow(asi_box)))

(* C2: every release-hole centre of the built cell lies in the union box
   of the Al-bottom, AlN and Al-top rectangles shrunk by mx_margin in X and
   my_margin in Y. *)
C2_HolesInsidePlateMargins ==
    \A k \in HolesOf(D) :
        LET b == union_bbox_of_refs(PlateRefs(D))
        IN  /\ b[1] + plate.mx_margin <= D[k].x
            /\ D[k].x <= b[3] - plate.mx_margin
            /\ b[2] + plate.my_margin <= D[k].y
            /\ D[k].y <= b[4] - plate.my_margin

(* a built cell with positive margins and a hole on the left inner edge *)
C2_Witness ==
    /\ pc = "done"
    /\ plate.mx_margin > 0
    /\ plate.my_margin > 0
    /\ \E k \in HolesOf(D) :
           D[k].x = union_bbox_of_refs(PlateRefs(D))[1] + plate.mx_margin

----------------------------------------------------------------------------
(* Claims about the segment classifier of the hole placer *)

(* the pair (pts[k], pts[k+1]) is vertical: |dx/dy| < 0.06 and |dy| > 0 *)
IsVerticalPair(pts, k) ==
    LET dx == pts[k + 1][1] - pts[k][1]
        dy == pts[k + 1][2] - pts[k][2]
    IN  /\ dy # 0
        /\ 50 * (IF dx < 0 THEN -dx ELSE dx) < 3 * (IF dy < 0 THEN -dy ELSE dy)

(* the runs the placer finds in the sampled centerline *)
RunsOf(pts) == ScanRuns(VerticalMask(pts), 1, << >>)

(* C12: the runs found in the sampled centerline are the maximal runs of
   consecutive vertical pairs: non-empty, ascending and disjoint, covering
   every vertical pair and no other pair, and two runs in a row have a
   non-vertical pair between them. *)
C12_RunsAreMaximal ==
    Len(pts_final) >= 2 =>
        LET runs == RunsOf(pts_final)
            pairs == 1..(Len(pts_final) - 1)
        IN  /\ \A r \in 1..Len(runs) :
                   /\ 1 <= runs[r][1]
                   /\ runs[r][1] < runs[r][2]
                   /\ runs[r][2] <= Len(pts_final)
            /\ \A r \in 1..(Len(runs) - 1) :
                   /\ runs[r][2] < runs[r + 1][1]
                   /\ \E k \in runs[r][2]..(runs[r + 1][1] - 1) : ~IsVerticalPair(pts_final, k)
            /\ \A k \in pairs :
                   IsVerticalPair(pts_final, k) <=>
                       (\E r \in 1..Len(runs) : runs[r][1] <= k /\ k < runs[r][2])
            /\ Len(runs) > 0 => (runs[1][1] = 1 \/ ~IsVerticalPair(pts_final, runs[1][1] - 1))

(* a centerline with two runs, one of them of several pairs *)
C12_Witness ==
    /\ pc = "done"
    /\ Len(pts_final) >= 2
    /\ Len(RunsOf(pts_final)) >= 2
    /\ \E r \in 1..Len(RunsOf(pts_final)) :
           RunsOf(pts_final)[r][2] - RunsOf(pts_final)[r][1] >= 2

(* the number of maximal blocks of vertical pairs in pts *)
VerticalLegCount(pts) ==
    Cardinality({k \in 1..(Len(pts) - 1) :
                    /\ IsVerticalPair(pts, k)
                    /\ (k = 1 \/ ~IsVerticalPair(pts, k - 1))})

(* C13: when the sampled centerline has fewer than two vertical runs, the
   hole placer returns without adding a hole and without raising. *)
C13_FewerThanTwoRunsNoHoles ==
    (pc \in {"strips", "meta", "done"} /\ holes.add_holes /\ VerticalLegCount(pts_final) < 2) =>
        /\ HolesOf(D) = {}
        /\ err = ""

(* a built cell whose centerline has exactly one vertical leg, with rows
   requested and a usable plate *)
C13_Witness ==
    /\ pc = "done"
    /\ holes.add_holes
    /\ ~holes.holes_per_col_set
    /\ VerticalLegCount(pts_final) = 1
    /\ HolesOf(D) = {}

(* a built cell whose centerline has no vertical leg *)
C13_WitnessNoLeg ==
    /\ pc = "done"
    /\ holes.add_holes
    /\ Len(pts_final) >= 2
    /\ VerticalLegCount(pts_final) = 0

(* the first pairs of the maximal blocks of vertical pairs in pts *)
LegStarts(pts) ==
    {k \in 1..(Len(pts) - 1) :
        IsVerticalPair(pts, k) /\ (k = 1 \/ ~IsVerticalPair(pts, k - 1))}

(* C14 as stated: with two legs or more, the sorted list of leg X values
   is strictly ascending and no two entries are within the deduplication
   tolerance of each other. *)
C14_LegXsStrictlyAscending ==
    pc \in {"inner", "columns", "rows", "place"} =>
        \A k \in 1..(Len(loc_x_centers) - 1) :
            loc_x_centers[k + 1] - loc_x_centers[k] > 1

(* C14, amended: with two legs or more, the list holds one X per leg (the
   legs handed in are straight, so the mean X of a leg is the X of its
   first point), in non-decreasing order; equal values are kept. *)
C14_LegXsSortedOnePerLeg ==
    pc \in {"inner", "columns", "rows", "place"} =>
        /\ Len(loc_x_centers) = Cardinality(LegStarts(pts_final))
        /\ Len(loc_x_centers) >= 2
        /\ \A k \in 1..(Len(loc_x_centers) - 1) : loc_x_centers[k] <= loc_x_centers[k + 1]
        /\ \A v \in LegXs :
               Cardinality({k \in 1..Len(loc_x_centers) : loc_x_centers[k] = v})
                   = Cardinality({k \in LegStarts(pts_final) : pts_final[k][1] = v})

(* three legs walked out of order, two of them at the same X *)
C14_Witness ==
    /\ pc = "inner"
    /\ Len(loc_x_centers) = 3
    /\ loc_x_centers[1] = loc_x_centers[2]
    /\ loc_x_centers[2] < loc_x_centers[3]
    /\ pts_final[1][1] = loc_x_centers[3]

----------------------------------------------------------------------------
(* Claims about the columns and rows of the hole placer *)

(* the midpoints between neighbouring leg X values *)
LegMidpoints ==
    {(loc_x_centers[k] + loc_x_centers[k + 1]) \div 2 : k \in 1..(Len(loc_x_centers) - 1)}

(* the values the column list is built from: both inner edges and the
   midpoints inside the inner rectangle *)
ColumnInputs ==
    {loc_inner.x0, loc_inner.x1}
        \cup {m \in LegMidpoints : loc_inner.x0 <= m /\ m <= loc_inner.x1}

(* C15: the column list is ascending, neighbours differ by more than the
   deduplication tolerance, and every entry is an input value inside
   [x0_inner, x1_inner]. *)
C15_ColumnsSortedDeduped ==
    pc \in {"rows", "place"} =>
        /\ \A k \in 1..(Len(loc_seam_xs) - 1) : loc_seam_xs[k + 1] - loc_seam_xs[k] > 1
        /\ \A k \in 1..Len(loc_seam_xs) :
               /\ loc_seam_xs[k] \in ColumnInputs
               /\ loc_inner.x0 <= loc_seam_xs[k]
               /\ loc_seam_xs[k] <= loc_inner.x1

(* a column list from which the de-duplication removed a value *)
C15_Witness ==
    /\ pc = "rows"
    /\ Len(loc_seam_xs) >= 2
    /\ Len(loc_seam_xs) < Cardinality(ColumnInputs)

(* the values of the column list *)
Columns == {loc_seam_xs[k] : k \in 1..Len(loc_seam_xs)}

(* C16 as stated: the column list holds the left inner edge, the right
   inner edge, every midpoint inside the inner rectangle, and nothing
   else. *)
C16_ColumnsAreEdgesAndMidpoints ==
    pc \in {"rows", "place"} => Columns = ColumnInputs

(* C16, amended: every column is an inner edge or a midpoint inside the
   inner rectangle, the left inner edge is always a column, and an edge or
   midpoint that is no column lies at most the deduplication tolerance
   above one. *)
C16_ColumnsUpToDeduplication ==
    pc \in {"rows", "place"} =>
        /\ Columns \subseteq ColumnInputs
        /\ loc_inner.x0 \in Columns
        /\ \A v \in ColumnInputs :
               \E c \in Columns : c <= v /\ v - c <= 1
        /\ \A m \in LegMidpoints :
               (m < loc_inner.x0 \/ m > loc_inner.x1) => m \notin Columns

(* the right inner edge is no column: a midpoint just below it was kept;
   and a midpoint outside the inner rectangle gave no column *)
C16_Witness ==
    /\ pc = "rows"
    /\ loc_inner.x1 \notin Columns
    /\ \E m \in LegMidpoints : m < loc_inner.x0

(* the plate box inside its margins: <<x0, y0, x1, y1>> *)
ShrunkBox ==
    << plate_bbox[1] + plate.mx_margin, plate_bbox[2] + plate.my_margin,
       plate_bbox[3] - plate.mx_margin, plate_bbox[4] - plate.my_margin >>

(* the shrunk box cut by the windows, when they are given *)
UsableBox ==
    IF asi_box.set
    THEN << IF asi_box.x0 > ShrunkBox[1] THEN asi_box.x0 ELSE ShrunkBox[1],
            IF asi_box.y0 > ShrunkBox[2] THEN asi_box.y0 ELSE ShrunkBox[2],
            IF asi_box.x1 < ShrunkBox[3] THEN asi_box.x1 ELSE ShrunkBox[3],
            IF asi_box.y1 < ShrunkBox[4] THEN asi_box.y1 ELSE ShrunkBox[4] >>
    ELSE ShrunkBox

NonPositive(b) == b[3] <= b[1] \/ b[4] <= b[2]

(* C17: the rectangle the columns and rows are built in is the plate box
   shrunk by the margins and cut by the windows; when the shrunk box or
   the cut box has no positive extent in X or in Y, no column, row or hole
   is built, nothing is raised and the component stays as it was. *)
C17_UsableRectangle ==
    /\ pc \in {"columns", "rows", "place"} =>
           /\ <<loc_inner.x0, loc_inner.y0, loc_inner.x1, loc_inner.y1>> = UsableBox
           /\ ~NonPositive(ShrunkBox)
           /\ ~NonPositive(UsableBox)
    /\ (NonPositive(ShrunkBox) \/ NonPositive(UsableBox)) =>
           /\ D = << >>
           /\ loc_seam_xs = << >>
           /\ loc_ys = << >>
           /\ err = ""

(* a call with two legs or more whose shrunk box is positive and whose cut
   box has no height *)
C17_Witness ==
    /\ pc = "placed"
    /\ Len(loc_x_centers) >= 2
    /\ ~NonPositive(ShrunkBox)
    /\ UsableBox[4] <= UsableBox[2]
    /\ UsableBox[3] > UsableBox[1]
    /\ holes.holes_per_col_set /\ holes.holes_per_col >= 2

(* a call with two legs or more whose shrunk box has no width *)
C17_WitnessMargins ==
    /\ pc = "placed"
    /\ Len(loc_x_centers) >= 2
    /\ ShrunkBox[3] <= ShrunkBox[1]

(* the placer has returned on a plate box that the margins left without
   positive extent *)
ReturnedOnDegenerateBox ==
    /\ pc = "placed"
    /\ Len(loc_x_centers) >= 2
    /\ NonPositive(ShrunkBox)

(* C23: a bounding box that has zero or negative extent after the margins
   are subtracted is rejected with an InvalidConfiguration error before it
   is used as a placement target. *)
C23_DegenerateBoxRaises ==
    ReturnedOnDegenerateBox => err = "InvalidConfiguration"

(* C23, as the program behaves: a plate box with zero or negative extent
   after the margins is never used as a placement target, and nothing is
   raised: the placer returns at once, with no error, no column, no row
   and no hole. *)
C23_DegenerateBoxSkippedSilently ==
    NonPositive(ShrunkBox) =>
        /\ err = ""
        /\ pc \in {"classify", "inner", "placed"}
        /\ ~loc_inner.ok
        /\ loc_seam_xs = << >> /\ loc_ys = << >> /\ D = << >>

(* the placer has returned on a box of zero width *)
C23_Witness ==
    /\ ReturnedOnDegenerateBox
    /\ ShrunkBox[3] = ShrunkBox[1]
    /\ ShrunkBox[4] > ShrunkBox[2]
    /\ err = ""

(* the placer has returned on a box of negative width *)
C23_WitnessNegative ==
    /\ ReturnedOnDegenerateBox
    /\ ShrunkBox[3] < ShrunkBox[1]
    /\ err = ""

(* the rows have been built *)
RowsBuilt == pc = "place" \/ (pc = "placed" /\ loc_seam_xs # << >>)

(* C18: with holes_per_col = n the rows are y0 + k*(y1 - y0)/(n + 1) for
   k = 1..n (rounded down to the grid) over the usable span [y0, y1]:
   none for n = 0, and then no hole; the centre for n = 1; never an edge
   for n >= 2. *)
C18_FixedCountRows ==
    (RowsBuilt /\ holes.holes_per_col_set /\ holes.holes_per_col >= 0) =>
        LET n == holes.holes_per_col
            y0 == UsableBox[2]
            y1 == UsableBox[4]
        IN  /\ Len(loc_ys) = n
            /\ \A k \in 1..n :
                   LET off == k * (y1 - y0) - (n + 1) * (loc_ys[k] - y0)
                   IN  0 <= off /\ off < n + 1
            /\ n = 0 => (pc = "placed" /\ D = << >>)
            /\ n = 1 => 2 * loc_ys[1] = y0 + y1
            /\ n >= 2 => \A k \in 1..n : y0 < loc_ys[k] /\ loc_ys[k] < y1

(* three rows *)
C18_Witness ==
    /\ pc = "place"
    /\ holes.holes_per_col_set
    /\ holes.holes_per_col = 3
    /\ Len(loc_ys) = 3

(* no row *)
C18_WitnessNoRow ==
    /\ pc = "placed"
    /\ loc_seam_xs # << >>
    /\ holes.holes_per_col_set
    /\ holes.holes_per_col = 0

(* C19: in pitch mode with pitch p > 0 the rows are a p-spaced grid centred
   in the usable span [y0, y1]: the first row is at y0 + p/2 and the last at
   y1 - p/2, so the gap below the first row equals the gap above the last;
   a span smaller than one pitch gives the single centre row. *)
C19_PitchRowsCentred ==
    (RowsBuilt /\ ~holes.holes_per_col_set /\ PitchY(holes) > 0) =>
        LET p == PitchY(holes)
            y0 == UsableBox[2]
            y1 == UsableBox[4]
        IN  IF y1 - y0 < p
            THEN loc_ys = << (y0 + y1) \div 2 >>
            ELSE /\ Len(loc_ys) >= 1
                 /\ \A k \in 1..(Len(loc_ys) - 1) : loc_ys[k + 1] - loc_ys[k] = p
                 /\ 2 * loc_ys[1] = 2 * y0 + p
                 /\ 2 * loc_ys[Len(loc_ys)] = 2 * y1 - p
                 /\ loc_ys[1] - y0 = y1 - loc_ys[Len(loc_ys)]

----------------------------------------------------------------------------
(* Claims about the returned component *)

(* the shapes of the component on a layer *)
OnLayer(d, layer) == {k \in 1..Len(d) : d[k].layer = layer}

(* C22: every build that returns hands back a component with the SiN strip
   and one plate rectangle of positive size on each of the layers AL_BOTTOM,
   ALN and AL_TOP, whatever add_oxide, add_asi and add_holes are: the
   component is never empty. *)
C22_CoreAndPlateAlwaysPresent ==
    pc = "done" =>
        /\ D # << >>
        /\ \E k \in OnLayer(D, "SIN") : D[k].kind = "strip"
        /\ \A layer \in {"AL_BOTTOM", "ALN", "AL_TOP"} :
               /\ Cardinality(OnLayer(D, layer)) = 1
               /\ \A k \in OnLayer(D, layer) :
                      D[k].kind = "rect" /\ D[k].w > 0 /\ D[k].h > 0

(* a build with every optional feature switched off has returned *)
C22_Witness ==
    /\ pc = "done"
    /\ ~widths.add_oxide
    /\ ~asi.add_asi
    /\ ~holes.add_holes
    /\ OnLayer(D, "SIN") # {}
    /\ OnLayer(D, "RELEASE") = {}

(* the plate rectangles have been placed *)
PlatePlaced ==
    pc \in {"align", "bboxes", "holes", "strips", "meta", "done"}

(* the top Al rectangle, the representative plate reference *)
TopPlate == D[PlateIndex(D, "AL_TOP")]

(* C24: the placed plate rectangle covers the centerline plus my_margin in
   Y, for every plate parameter set: its Y interval contains
   [ymin_path - my_margin, ymax_path + my_margin]. *)
C24_PlateCoversPathInY ==
    PlatePlaced =>
        /\ TopPlate.y <= SetMin(Ys(P)) - plate.my_margin
        /\ TopPlate.y + TopPlate.h >= SetMax(Ys(P)) + plate.my_margin

(* C24, as the program behaves: the plate is at least as high as the path
   plus both margins, and it is centred on the path in Y and then moved by
   mstack_rect_dy_um, so it contains [ymin_path - my_margin + dy,
   ymax_path + my_margin + dy], which is the claimed interval when
   mstack_rect_dy_um = 0. *)
C24_PlateCoversPathShiftedByDy ==
    PlatePlaced =>
        LET ymin == SetMin(Ys(P))
            ymax == SetMax(Ys(P))
            dy == plate.mstack_rect_dy_um
        IN  /\ TopPlate.h >= (ymax - ymin) + 2 * plate.my_margin
            /\ TopPlate.h >= plate.mstack_rect_width_um
            /\ 2 * (TopPlate.y - dy) + TopPlate.h = ymin + ymax
            /\ TopPlate.y - dy <= ymin - plate.my_margin
            /\ TopPlate.y - dy + TopPlate.h >= ymax + plate.my_margin

(* a plate moved down by mstack_rect_dy_um that leaves the top of the path
   uncovered *)
C24_Witness ==
    /\ pc = "done"
    /\ plate.mstack_rect_dy_um # 0
    /\ plate.my_margin > 0
    /\ TopPlate.y + TopPlate.h < SetMax(Ys(P)) + plate.my_margin

(* a plate that is not moved and covers the path with its margins *)
C24_WitnessNoShift ==
    /\ pc = "done"
    /\ plate.mstack_rect_dy_um = 0
    /\ plate.my_margin > 0
    /\ TopPlate.y = SetMin(Ys(P)) - plate.my_margin

(* the a-Si rectangle has been aligned to the plate *)
AsiAligned ==
    /\ pc \in {"bboxes", "holes", "strips", "meta", "done"}
    /\ r_asi # 0

(* C25: after the plate builder and the alignment the a-Si rectangle does
   not stick out of the plate in Y, for every ASiParams value: its Y
   interval lies inside the plate's, its top edge on the plate's top edge. *)
C25_AsiInsidePlateInY ==
    AsiAligned =>
        /\ D[r_asi].y + D[r_asi].h = TopPlate.y + TopPlate.h
        /\ D[r_asi].y >= TopPlate.y

(* C25, as the program behaves: the a-Si rectangle is never higher than
   the plate, and its top edge is the plate's top edge moved by
   asi_rect_dy_um; it lies inside the plate's Y interval when
   asi_rect_dy_um = 0. *)
C25_AsiTopAtPlateTopPlusDy ==
    AsiAligned =>
        /\ D[r_asi].h <= TopPlate.h
        /\ D[r_asi].h = Max(MIN_SIZE, Min(asi.asi_rect_width_um, TopPlate.h))
        /\ D[r_asi].y + D[r_asi].h = TopPlate.y + TopPlate.h + asi.asi_rect_dy_um
        /\ asi.asi_rect_dy_um = 0 => D[r_asi].y >= TopPlate.y

(* an a-Si rectangle clamped to the plate height and moved down: it sticks
   out below the plate *)
C25_Witness ==
    /\ pc = "done"
    /\ r_asi # 0
    /\ asi.asi_rect_width_um > TopPlate.h
    /\ asi.asi_rect_dy_um < 0
    /\ D[r_asi].y < TopPlate.y

(* an a-Si rectangle moved up: it sticks out above the plate *)
C25_WitnessAbove ==
    /\ pc = "done"
    /\ r_asi # 0
    /\ asi.asi_rect_dy_um > 0
    /\ D[r_asi].y + D[r_asi].h > TopPlate.y + TopPlate.h

(* an a-Si rectangle that is not moved: clamped, inside the plate *)
C25_WitnessInside ==
    /\ pc = "done"
    /\ r_asi # 0
    /\ asi.asi_rect_dy_um = 0
    /\ asi.asi_rect_width_um > TopPlate.h
    /\ D[r_asi].h = TopPlate.h

(* C26: the M1 rectangle in the bottom strip window has the clearance
   build.m1_inner_margin_um above it and below it (the window being high
   enough for both), so with m1_inner_margin_um = 0 it spans the full
   height of the oxide strip window. *)
C26_M1ClearanceIsBuildMargin ==
    pc = "done" =>
        \A m \in OnLayer(D, "M1") : \A o \in OnLayer(D, "OX_LOWER_STRIP") :
            D[o].h >= 2 * build.m1_inner_margin_um =>
                /\ D[m].y - D[o].y = build.m1_inner_margin_um
                /\ (D[o].y + D[o].h) - (D[m].y + D[m].h) = build.m1_inner_margin_um

(* C27: the centerline used for the keep-out test is the sampled path
   moved in Y by serp.y_offset_um, exactly as the SiN core and the oxide
   cladding are moved from where the path puts them; with y_offset_um = 0
   none of them is moved. *)
C27_KeepOutPathMovesWithWaveguide ==
    (pc = "done" /\ holes.add_holes) =>
        LET dy == serp.y_offset_um
            sampled == sample_points_um(P, linspace(0, path_length_um(P), SampleN))
        IN  /\ Len(pts_final) = Len(sampled)
            /\ \A k \in 1..Len(sampled) :
                   pts_final[k] = <<sampled[k][1], sampled[k][2] + dy>>
            /\ \A k \in OnLayer(D, "SIN") :
                   /\ D[k].y = PathBox(P, widths.width_sin_um).y + dy
                   /\ D[k].x = PathBox(P, widths.width_sin_um).x
            /\ \A k \in OnLayer(D, "OXIDE") :
                   /\ D[k].y = PathBox(P, widths.width_oxide_um).y + dy
                   /\ D[k].x = PathBox(P, widths.width_oxide_um).x

(* a shifted waveguide with cladding, and holes placed around it *)
C27_Witness ==
    /\ pc = "done"
    /\ holes.add_holes
    /\ serp.y_offset_um # 0
    /\ OnLayer(D, "OXIDE") # {}
    /\ OnLayer(D, "RELEASE") # {}
    /\ pts_final[1] = <<P[1][1], P[1][2] + serp.y_offset_um>>

(* a waveguide that is not shifted, and holes placed around it *)
C27_WitnessNoShift ==
    /\ pc = "done"
    /\ holes.add_holes
    /\ serp.y_offset_um = 0
    /\ OnLayer(D, "RELEASE") # {}
    /\ pts_final[1] = P[1]

(* C28: when the a-Si rectangle is present, every release-hole centre of
   the built cell lies inside the bounding box of the a-Si rectangle where
   it finally is, in X and in Y, and inside the plate box shrunk by the
   margins: no hole is on ground that only one of the two covers. *)
C28_HolesInsideAsiAndPlate ==
    r_asi # 0 =>
        \A k \in HolesOf(D) :
            LET a == bbox_xyxy(D[r_asi])
                b == union_bbox_of_refs(PlateRefs(D))
            IN  /\ a[1] <= D[k].x /\ D[k].x <= a[3]
                /\ a[2] <= D[k].y /\ D[k].y <= a[4]
                /\ Max(a[1], b[1] + plate.mx_margin) <= D[k].x
                /\ D[k].x <= Min(a[3], b[3] - plate.mx_margin)
                /\ Max(a[2], b[2] + plate.my_margin) <= D[k].y
                /\ D[k].y <= Min(a[4], b[4] - plate.my_margin)

(* a built cell whose a-Si rectangle is lower than the shrunk plate box,
   with a hole row in it *)
C28_Witness ==
    /\ pc = "done"
    /\ r_asi # 0
    /\ HolesOf(D) # {}
    /\ bbox_xyxy(D[r_asi])[2] >
           union_bbox_of_refs(PlateRefs(D))[2] + plate.my_margin + holes.hole_pitch_um

(* a built cell whose a-Si rectangle begins right of the shrunk plate box,
   with a hole column on its left edge *)
C28_WitnessX ==
    /\ pc = "done"
    /\ r_asi # 0
    /\ bbox_xyxy(D[r_asi])[1] > union_bbox_of_refs(PlateRefs(D))[1] + plate.mx_margin
    /\ \E k \in HolesOf(D) : D[k].x = bbox_xyxy(D[r_asi])[1]

----------------------------------------------------------------------------
(* Claims about the order of the builder's steps *)

(* the positions of the builder from the waveguide shift on, in the order
   the claim gives *)
BuilderOrder == <<"shift", "plate", "align", "bboxes", "holes", "strips", "meta", "done">>

OrderIndex(p) == CHOOSE k \in 1..Len(BuilderOrder) : BuilderOrder[k] = p

(* the waveguide, plate and a-Si shapes of a component, in their order *)
FixedGeometry(d) ==
    SelectSeq(d, LAMBDA sh : sh.layer \in {"SIN", "OXIDE", "AL_BOTTOM", "ALN", "AL_TOP", "ASI"})

(* the release holes of a component, in their order *)
HoleGeometry(d) == SelectSeq(d, LAMBDA sh : sh.layer = "RELEASE")

(* C30: the builder takes its steps in the order waveguide shift, plate
   and a-Si creation, a-Si alignment, reading of the bounding boxes, hole
   placement, strips and M1. The boxes that clip the holes are those of
   the plate and of the aligned a-Si rectangle as they finally are; holes
   appear in the hole step only, and from then on no waveguide, plate or
   a-Si shape and no hole changes. *)
C30_StepsInOrder ==
    /\ [][(pc' # pc /\ pc \in {BuilderOrder[k] : k \in 1..(Len(BuilderOrder) - 1)}) =>
              pc' = BuilderOrder[OrderIndex(pc) + 1]]_vars
    /\ [][HoleGeometry(D') # HoleGeometry(D) => (pc = "holes" /\ pc' = "strips")]_vars
    /\ [][(pc \in {"holes", "strips", "meta", "done"}) =>
              FixedGeometry(D') = FixedGeometry(D)]_vars
    /\ [][(pc \in {"strips", "meta", "done"}) => HoleGeometry(D') = HoleGeometry(D)]_vars
    /\ [](pc \in {"holes", "strips", "meta", "done"} =>
              /\ plate_bbox = union_bbox_of_refs(PlateRefs(D))
              /\ asi_box.set = (r_asi # 0)
              /\ r_asi # 0 =>
                     /\ <<asi_box.x0, asi_box.y0, asi_box.x1, asi_box.y1>> = bbox_xyxy(D[r_asi])
                     /\ asi_box.y1 = plate_bbox[4] + asi.asi_rect_dy_um)

(* a returned cell with a shifted waveguide, an a-Si rectangle that the
   alignment moved, holes and strips *)
C30_Witness ==
    /\ pc = "done"
    /\ serp.y_offset_um # 0
    /\ r_asi # 0
    /\ D[r_asi].y # AsiRect(P, plate, asi).y
    /\ Len(HoleGeometry(D)) > 0
    /\ OnLayer(D, "M1") # {}

----------------------------------------------------------------------------
(* Claims about main and the writer *)

(* C20: when the build fails no GDS file and no metadata file is ever
   written: a file is written only by a step taken after
   build_serpentine_multilayer_cell has returned without an error, and no
   step of the builder writes a file. *)
C20_NoFileOnFailedBuild ==
    /\ [](err # "" => files = {})
    /\ [][files' # files => (err = "" /\ pc \in {"done", "gds_written"})]_vars

(* a failed build, main stopped with nothing written *)
C20_Witness ==
    /\ pc = "error"
    /\ err # ""
    /\ files = {}

(* a successful build, both files written *)
C20_WitnessWritten ==
    /\ pc = "written"
    /\ err = ""
    /\ files = {"gds", "meta"}

(* the name without its last suffix *)
BaseName(name) == IF Len(name) >= 2 THEN SubSeq(name, 1, Len(name) - 1) ELSE name

(* C21: after write_gds_with_meta returns, exactly the layout <base>.gds
   and the sidecar <base>.meta.json have been written, <base> being the
   given name without its last suffix, and the returned path is <base>.gds
   whatever suffix was passed; the sidecar is only ever written after the
   layout of the same call. *)
C21_LayoutThenSidecar ==
    /\ [](pc = "written" =>
            /\ out_path = BaseName(gds_path) \o <<"gds">>
            /\ out_files = << BaseName(gds_path) \o <<"gds">>,
                              BaseName(gds_path) \o <<"meta", "json">> >>)
    /\ [][Len(out_files') > Len(out_files) =>
             LET f == out_files'[Len(out_files')]
             IN  f[Len(f)] = "json" =>
                     /\ Len(out_files) >= 1
                     /\ BaseName(BaseName(f)) \o <<"gds">> = out_files[Len(out_files)]]_vars

(* a call given a name with another suffix has returned *)
C21_Witness ==
    /\ pc = "written"
    /\ gds_path = <<"out", "meta", "json">>
    /\ out_path = <<"out", "meta", "gds">>
    /\ Len(out_files) = 2

(* a call given a name without a suffix has returned *)
C21_WitnessNoSuffix ==
    /\ pc = "written"
    /\ gds_path = <<".hidden">>
    /\ out_path = <<".hidden", "gds">>

(* the rows of a fixed count n over [y0, y1] *)
CountRows(n, y0, y1) == [k \in 1..n |-> y0 + ((k * (y1 - y0)) \div (n + 1))]

(* the rows of a pitch p over [y0, y1]: the centre for a non-positive pitch
   or a span below one pitch, else p apart from y0 + p/2 up to y1 - p/2 *)
PitchRows(p, y0, y1) ==
    IF p <= 0 \/ y1 - y0 < p THEN << (y0 + y1) \div 2 >>
    ELSE [k \in 1..(((y1 - y0 - p) \div p) + 1) |-> y0 + (p \div 2) + (k - 1) * p]

(* C29: the row mode is exclusive. With holes_per_col set the rows follow
   from the count alone, a negative count counting as 0, and neither pitch
   field matters; only with holes_per_col unset a pitch is used, which is
   hole_pitch_y_um when that is set and non-zero and hole_pitch_um
   otherwise, a non-positive pitch giving the single centre row. *)
C29_RowModeExclusive ==
    RowsBuilt =>
        LET y0 == UsableBox[2]
            y1 == UsableBox[4]
        IN  IF holes.holes_per_col_set
            THEN loc_ys = CountRows(IF holes.holes_per_col < 0 THEN 0
                                    ELSE holes.holes_per_col, y0, y1)
            ELSE IF holes.hole_pitch_y_set /\ holes.hole_pitch_y_um # 0
                 THEN loc_ys = PitchRows(holes.hole_pitch_y_um, y0, y1)
                 ELSE loc_ys = PitchRows(holes.hole_pitch_um, y0, y1)

(* a count together with a vertical pitch that would give other rows *)
C29_Witness ==
    /\ pc = "place"
    /\ holes.holes_per_col_set
    /\ holes.holes_per_col = 2
    /\ holes.hole_pitch_y_set /\ holes.hole_pitch_y_um = 10
    /\ Len(loc_ys) = 2
    /\ Len(PitchRows(holes.hole_pitch_y_um, UsableBox[2], UsableBox[4])) = 1

(* no count: the vertical pitch is used, not the common pitch *)
C29_WitnessPitchY ==
    /\ pc = "place"
    /\ ~holes.holes_per_col_set
    /\ holes.hole_pitch_y_set /\ holes.hole_pitch_y_um = 10
    /\ holes.hole_pitch_um = 6
    /\ Len(loc_ys) >= 2
    /\ loc_ys[2] - loc_ys[1] = 10

(* no count and a vertical pitch of zero: the common pitch is used *)
C29_WitnessPitchYZero ==
    /\ pc = "place"
    /\ ~holes.holes_per_col_set
    /\ holes.hole_pitch_y_set /\ holes.hole_pitch_y_um = 0
    /\ Len(loc_ys) >= 2
    /\ loc_ys[2] - loc_ys[1] = holes.hole_pitch_um

(* a negative count: no row *)
C29_WitnessNegativeCount ==
    /\ pc = "placed"
    /\ loc_seam_xs # << >>
    /\ holes.holes_per_col_set
    /\ holes.holes_per_col < 0
    /\ loc_ys = << >>

(* a negative pitch: the centre row *)
C29_WitnessNegativePitch ==
    /\ pc = "place"
    /\ ~holes.holes_per_col_set
    /\ PitchY(holes) < 0
    /\ Len(loc_ys) = 1

----------------------------------------------------------------------------
(* Claims about the sampler on evenly spaced arclengths *)

(* the chord from a to b, exact on the points of GeomPoints *)
Chord(a, b) ==
    CHOOSE d \in 0..10 :
        d * d = (b[1] - a[1]) * (b[1] - a[1]) + (b[2] - a[2]) * (b[2] - a[2])

(* the cumulative chord length at vertex j *)
RECURSIVE ChordSum(_, _)
ChordSum(pts, j) == IF j <= 1 THEN 0 ELSE ChordSum(pts, j - 1) + Chord(pts[j - 1], pts[j])

(* s_vals holds N values evenly spaced from 0 to total, on the grid *)
EvenlySpaced(s_vals, total) ==
    LET N == Len(s_vals)
    IN  \A k \in 1..N :
            s_vals[k] = IF N = 1 THEN 0 ELSE ((k - 1) * total) \div (N - 1)

(* q is the point at arclength s on the chord j of pts, to within the grid *)
OnChord(q, s, pts, j) ==
    LET c0 == ChordSum(pts, j)
        len == Chord(pts[j], pts[j + 1])
    IN  /\ c0 <= s
        /\ s <= c0 + len
        /\ IF len = 0 THEN q = pts[j]
           ELSE \A c \in 1..2 :
                   LET off == (q[c] - pts[j][c]) * len - (s - c0) * (pts[j + 1][c] - pts[j][c])
                   IN  -len < off /\ off < len

(* C11 as stated: for any path and any N, the N evenly spaced arclengths
   give N points, each interpolated on a chord that brackets its arclength,
   the first equal to the first vertex and the last to the last vertex. *)
C11_SamplesAnyPathAnyCount ==
    (pc = "returned" /\ EvenlySpaced(in_s, out_len)) =>
        /\ Len(out_pts) = Len(in_s)
        /\ Len(in_s) >= 1 =>
              /\ Len(in_pts) >= 1
              /\ out_pts[1] = in_pts[1]
              /\ out_pts[Len(out_pts)] = in_pts[Len(in_pts)]
        /\ Len(in_pts) >= 2 =>
              \A k \in 1..Len(out_pts) :
                  \E j \in 1..(Len(in_pts) - 1) : OnChord(out_pts[k], in_s[k], in_pts, j)

(* C11, amended: on a path with at least one point, N >= 2 evenly spaced
   arclengths give N points, the first equal to the first vertex and the
   last to the last vertex, each interpolated on a chord that brackets its
   arclength; N = 1 gives the first vertex alone; a path without points
   gives no point. *)
C11_SamplesNonEmptyPath ==
    (pc = "returned" /\ EvenlySpaced(in_s, out_len)) =>
        /\ Len(in_pts) = 0 => out_pts = << >>
        /\ Len(in_pts) >= 1 =>
              /\ Len(out_pts) = Len(in_s)
              /\ Len(in_s) >= 1 => out_pts[1] = in_pts[1]
              /\ Len(in_s) >= 2 => out_pts[Len(out_pts)] = in_pts[Len(in_pts)]
        /\ Len(in_pts) >= 2 =>
              \A k \in 1..Len(out_pts) :
                  \E j \in 1..(Len(in_pts) - 1) : OnChord(out_pts[k], in_s[k], in_pts, j)

(* three samples of a path of three distinct vertices, the middle one
   strictly inside a chord *)
C11_Witness ==
    /\ pc = "returned"
    /\ Len(in_pts) = 3
    /\ in_pts[1] # in_pts[2] /\ in_pts[2] # in_pts[3]
    /\ Len(in_s) = 3
    /\ EvenlySpaced(in_s, out_len)
    /\ out_pts[2] \notin {in_pts[1], in_pts[2], in_pts[3]}

----------------------------------------------------------------------------
(* Claims about the sampler on degenerate paths *)

(* C10 as stated: on a path of fewer than 2 points path_length_um returns 0
   and sample_points_um returns the single point once per requested value. *)
C10_DegenerateRepeatsThePoint ==
    (pc = "returned" /\ Len(in_pts) < 2) =>
        /\ out_len = 0
        /\ Len(out_pts) = Len(in_s)
        /\ \A k \in 1..Len(out_pts) : Len(in_pts) = 1 /\ out_pts[k] = in_pts[1]

(* C10, amended: both calls return on a path of fewer than 2 points;
   path_length_um returns 0; sample_points_um returns the single point once
   per requested value on a one-point path, and no point at all on a
   path without points. *)
C10_DegenerateOnePointOrEmpty ==
    /\ (pc \in {"sample", "returned"} /\ Len(in_pts) < 2) => out_len = 0
    /\ (pc = "returned" /\ Len(in_pts) = 1) =>
           /\ Len(out_pts) = Len(in_s)
           /\ \A k \in 1..Len(out_pts) : out_pts[k] = in_pts[1]
    /\ (pc = "returned" /\ Len(in_pts) = 0) => out_pts = << >>

C10_Witness ==
    /\ pc = "returned"
    /\ Len(in_pts) = 1
    /\ Len(in_s) = 2
    /\ Len(out_pts) = 2

C10_WitnessNoPoints ==
    /\ pc = "returned"
    /\ Len(in_pts) = 0
    /\ Len(in_s) = 2

====
